---- MODULE Spec2Model ----
(***************************************************************************)
(* A model of the pono MEV inspection pipeline (rizwankaz/solana-mev):     *)
(* the swap parser (parsers/swap.rs), the arbitrage classifier and the     *)
(* sandwich identifier with their profit accounting (detectors/mod.rs).    *)
(*                                                                         *)
(* Numbers.  f64 quantities are carried as exact integers:                 *)
(*   - a normalised token amount raw / 10^decimals is carried in units of  *)
(*     10^-9 token (raw * 10^(9 - decimals)), for decimals <= 9;           *)
(*   - a price is carried in cents (0.95 USD is 95);                       *)
(*   - a USD value is carried in units of 10^-11 USD, so that              *)
(*     lamports / 1e9 * price is lamports * price_in_cents.                *)
(* u64 / i64 are carried at a reduced width of AmountBits bits.            *)
(***************************************************************************)
EXTENDS Integers, Sequences, FiniteSets, TLC

VARIABLES
    pc,                   \* position of the operation being modelled
    tx,                   \* the transaction handed to the swap parser
    swaps,                \* Vec<SwapInfo>: the parser's output / the classifier's input
    token_changes,        \* Vec<TokenChange> returned by extract_token_changes
    arbitrage_type,       \* the classifier's return value
    price_map,            \* HashMap<String, f64> mint -> price
    transactions,         \* the block handed to detect_mev
    oracle,               \* what the price service answers (mint -> price)
    arbitrage_candidates, \* detect_mev: stage-1 candidates, in input order
    sandwich_candidates,  \* identify_sandwiches_lazy: candidates so far
    groups_left,          \* signer groups the HashMap iteration has not yielded yet
    events,               \* the Vec<MevEvent> being built / returned
    first_events,         \* the events returned by an earlier call on the same block
    call_no,              \* which detect_mev call on this block is running
    price_fetches,        \* the batches handed to batch_get_prices by this call
    worker_results,       \* results of the parallel workers, in completion order
    fetcher,              \* BlockFetcher: its config and the running fetch_block call
    stream,               \* the task spawned by BlockStream::follow_tip and its channel
    runner,               \* the `run` command of the binary: its loop and its output
    rpc,                  \* the chain as the RPC node reports it
    oracle_client,        \* OracleClient: its price cache and the fetches it issued
    limiter,              \* RateLimiter: its two mutexes and the callers of acquire
    tip_result            \* the Option<u64> a jito_tip call returned

vars == <<pc, tx, swaps, token_changes, arbitrage_type, price_map, transactions,
          oracle, arbitrage_candidates, sandwich_candidates, groups_left, events,
          first_events, call_no, price_fetches, worker_results, fetcher, stream,
          runner, rpc, oracle_client, limiter,
          tip_result>>

shared_vars == <<oracle_client, limiter, tip_result>>
net_vars == <<fetcher, stream, runner, rpc, shared_vars>>
io_vars == <<price_fetches, worker_results, net_vars>>

(***************************************************************************)
(* Addresses and literals of the source.                                   *)
(***************************************************************************)
SOL == "So11111111111111111111111111111111111111112"
TOKEN_PROGRAM == "TokenkegQfeZyiNwAJbNbGKPFXCWuBvf9Ss623VQ5DA"
SYSTEM_PROGRAM == "11111111111111111111111111111111"
ATOKEN_PROGRAM == "ATokenGPvbdGVxr1b2hvZbsiqW5xWH25efTNsLJA8knL"
COMPUTE_BUDGET_PROGRAM == "ComputeBudget111111111111111111111111111111"
USDC == "EPjFWdd5AufqSSqeM2qN1xzybapC8G4wEGGkZwyTDt1v"
USDT == "Es9vMFrzaCERmJfrF4H2FYD4KCoNkY11McCe8BenwNYB"
BONK == "DezXAZ8z7PnrnRJjz3wXBoRgixCa6xjnB7YaB1pPB263"

\* decimals given to a native (system program) transfer
SOL_DECIMALS == 9
\* 1_000_000_000 lamports per SOL: amounts are carried in units of 10^-UnitDecimals
UnitDecimals == 9
\* u64 / i64 are modelled AmountBits wide
AmountBits == 8
\* min_swap_count
MinSwapCount == 2
\* stablecoin band, in cents
StableLow == 95
StableHigh == 105

\* an absent JSON field / Option::None
NoStr == "<none>"
NoNum == 0 - 1
\* a present amount string that is not a decimal number
NotNumeric == 0 - 2

RECURSIVE Pow(_, _)
Pow(b, n) == IF n = 0 THEN 1 ELSE b * Pow(b, n - 1)

U64Max == Pow(2, AmountBits) - 1
I64Max == Pow(2, AmountBits - 1) - 1
I64Min == 0 - Pow(2, AmountBits - 1)

Abs(x) == IF x < 0 THEN 0 - x ELSE x

\* str::parse::<u64>: Some(n) for a decimal string within range, None otherwise.
\* An amount string is carried as the number it denotes, or NotNumeric.
ParseU64(s) == IF s >= 0 /\ s <= U64Max THEN s ELSE NoNum

\* amount as f64 / 10_f64.powi(decimals), in units of 10^-UnitDecimals
Normalize(amount, decimals) == amount * Pow(10, UnitDecimals - decimals)

Range(s) == {s[i] : i \in DOMAIN s}

(***************************************************************************)
(* FetchedTransaction accessors (types/block.rs).                          *)
(* A transaction is a record; an absent OptionSerializer list is carried   *)
(* as the empty list (every reader treats the two alike).                  *)
(***************************************************************************)
is_success(t) == t.has_meta /\ ~t.err

GetAccountKeys(t) == IF t.encoding = "Binary" THEN <<>> ELSE t.account_keys

\* Option<String>: NoStr for None
signer(t) ==
    IF t.encoding = "Binary" THEN NoStr
    ELSE IF Len(t.account_keys) = 0 THEN NoStr ELSE t.account_keys[1]

fee(t) == IF t.has_meta THEN t.fee ELSE NoNum

(***************************************************************************)
(* Swap parser (parsers/swap.rs).                                          *)
(***************************************************************************)
\* Vec::get(i as usize) on a 0-based index; "" when out of range (unwrap_or_default)
KeyAt(keys, i) == IF i >= 0 /\ i < Len(keys) THEN keys[i + 1] ELSE ""

GetInstructionProgramId(inst, account_keys) ==
    CASE inst.kind = "Parsed" -> ""
      [] inst.kind = "PartiallyDecoded" -> inst.program_id
      [] inst.kind = "Compiled" -> KeyAt(account_keys, inst.program_id_index)

IsSystemProgram(program_id) ==
    program_id \in {SYSTEM_PROGRAM, TOKEN_PROGRAM, ATOKEN_PROGRAM, COMPUTE_BUDGET_PROGRAM}

GetOuterInstructions(t) ==
    IF t.encoding = "Binary" THEN <<>>
    ELSE [i \in 1..Len(t.instructions) |->
            GetInstructionProgramId(t.instructions[i], t.account_keys)]

\* pre balances first, post balances second: a later insert overwrites
TokenBalanceRows(t) ==
    IF t.has_meta THEN t.pre_token_balances \o t.post_token_balances ELSE <<>>

\* `for balance in ..: if let Some(account) = account_keys.get(idx) { map.insert(..) }`
\* over the rows from position i on
RECURSIVE InsertTokenRows(_, _, _, _)
InsertTokenRows(rows, i, keys, map) ==
    IF i > Len(rows) THEN map
    ELSE LET row == rows[i]
             hit == row.account_index >= 0 /\ row.account_index < Len(keys)
             info == [mint |-> row.mint, decimals |-> row.decimals]
         IN InsertTokenRows(rows, i + 1, keys,
                            IF hit THEN (keys[row.account_index + 1] :> info) @@ map
                            ELSE map)

BuildTokenMap(t) == InsertTokenRows(TokenBalanceRows(t), 1, GetAccountKeys(t), <<>>)

\* the same loop in build_owner_map, inserting only `if let Some(owner) = &balance.owner`
RECURSIVE InsertOwnerRows(_, _, _, _)
InsertOwnerRows(rows, i, keys, map) ==
    IF i > Len(rows) THEN map
    ELSE LET row == rows[i]
             hit == row.account_index >= 0 /\ row.account_index < Len(keys)
                    /\ row.owner # NoStr
         IN InsertOwnerRows(rows, i + 1, keys,
                            IF hit THEN (keys[row.account_index + 1] :> row.owner) @@ map
                            ELSE map)

BuildOwnerMap(t) == InsertOwnerRows(TokenBalanceRows(t), 1, GetAccountKeys(t), <<>>)

\* unwrap_or("") of an optional string field
StrOrEmpty(s) == IF s = NoStr THEN "" ELSE s

\* the transfer a fully parsed instruction describes: <<>> when the walk
\* `continue`s, <<transfer>> otherwise (the amount may still be 0)
ParseTransfer(inst, is_system_program, token_map) ==
    IF inst.kind # "Parsed" THEN <<>>
    ELSE LET p == inst.parsed IN
      IF ~p.is_object THEN <<>>
      ELSE IF p.type = NoStr THEN <<>>
      ELSE IF p.type # "transfer" /\ p.type # "transferChecked" THEN <<>>
      ELSE IF ~p.has_info THEN <<>>
      ELSE IF is_system_program THEN
        << [mint |-> SOL, decimals |-> SOL_DECIMALS,
            amount |-> IF p.lamports = NoNum THEN 0 ELSE p.lamports,
            source |-> StrOrEmpty(p.source),
            destination |-> StrOrEmpty(p.destination)] >>
      ELSE
        LET source == StrOrEmpty(IF p.source # NoStr THEN p.source ELSE p.account)
            destination == StrOrEmpty(p.destination)
            key == IF p.source # NoStr THEN p.source
                   ELSE IF p.account # NoStr THEN p.account ELSE p.destination
            has_token_info == key # NoStr /\ key \in DOMAIN token_map
            amount_str == IF p.amount # NoNum THEN p.amount ELSE p.ta_amount
            amount == IF ParseU64(amount_str) = NoNum THEN 0 ELSE ParseU64(amount_str)
        IN IF has_token_info THEN
             << [mint |-> token_map[key].mint, decimals |-> token_map[key].decimals,
                 amount |-> amount, source |-> source, destination |-> destination] >>
           ELSE IF p.mint # NoStr /\ p.ta_decimals # NoNum THEN
             << [mint |-> p.mint, decimals |-> p.ta_decimals % 256,
                 amount |-> amount, source |-> source, destination |-> destination] >>
           ELSE <<>>

\* faulty variant: the walk without the `amount > 0` test
KeepEveryTransfer(t) == TRUE

\* `if amount > 0 { transfers.push(..) }`
KeepTransfer(t) == t.amount > 0

\* the first loop of extract_swaps_from_inner_set: the (Transfer, current_dex) list
RECURSIVE WalkInstructions(_, _, _, _, _, _)
WalkInstructions(instructions, i, token_map, account_keys, current_dex, transfers) ==
    IF i > Len(instructions) THEN transfers
    ELSE
      LET inst == instructions[i]
          program_id == GetInstructionProgramId(inst, account_keys)
          is_token_program == IF inst.kind = "Parsed" THEN inst.program = "spl-token"
                              ELSE program_id = TOKEN_PROGRAM
          is_system_program == IF inst.kind = "Parsed" THEN inst.program = "system"
                               ELSE program_id = SYSTEM_PROGRAM
          dex == IF /\ ~is_token_program /\ ~is_system_program
                    /\ program_id # "" /\ ~IsSystemProgram(program_id)
                 THEN program_id ELSE current_dex
          found == IF ~is_token_program /\ ~is_system_program THEN <<>>
                   ELSE ParseTransfer(inst, is_system_program, token_map)
          kept == IF found # <<>> /\ KeepTransfer(found[1])
                  THEN << [transfer |-> found[1], dex |-> dex] >> ELSE <<>>
      IN WalkInstructions(instructions, i + 1, token_map, account_keys, dex,
                          transfers \o kept)

\* positions (in order) of the transfers whose `field` account is owned by the signer
RECURSIVE OwnedPositions(_, _, _, _, _)
OwnedPositions(transfers, owner_map, who, field, i) ==
    IF i > Len(transfers) THEN <<>>
    ELSE LET a == IF field = "source" THEN transfers[i].transfer.source
                  ELSE transfers[i].transfer.destination
             mine == a \in DOMAIN owner_map /\ owner_map[a] = who
         IN (IF mine THEN <<i>> ELSE <<>>)
            \o OwnedPositions(transfers, owner_map, who, field, i + 1)

\* `.filter(|(_, (_, t, _))| t.mint != out_transfer.mint)`
MintDiffers(in_transfer, out_transfer) == in_transfer.mint # out_transfer.mint

\* min_by_key over the unused incoming transfers with another mint: the first
\* of the nearest ones; 0 when there is none
NearestIncoming(transfers, incoming, used_incoming, out_idx) ==
    LET eligible == {pos \in 1..Len(incoming) :
                       /\ pos \notin used_incoming
                       /\ MintDiffers(transfers[incoming[pos]].transfer,
                                      transfers[out_idx].transfer)}
        Dist(pos) == Abs(incoming[pos] - out_idx)
    IN IF eligible = {} THEN 0
       ELSE CHOOSE p \in eligible :
              \A q \in eligible : Dist(p) < Dist(q) \/ (Dist(p) = Dist(q) /\ p <= q)

RECURSIVE MatchOutgoing(_, _, _, _, _, _)
MatchOutgoing(transfers, outgoing, incoming, k, used_incoming, acc) ==
    IF k > Len(outgoing) THEN acc
    ELSE
      LET out_idx == outgoing[k]
          inc_pos == NearestIncoming(transfers, incoming, used_incoming, out_idx)
      IN IF inc_pos = 0
         THEN MatchOutgoing(transfers, outgoing, incoming, k + 1, used_incoming, acc)
         ELSE
           LET out_transfer == transfers[out_idx].transfer
               in_transfer == transfers[incoming[inc_pos]].transfer
               swap == [token0 |-> out_transfer.mint,
                        amount0 |-> Normalize(out_transfer.amount, out_transfer.decimals),
                        token1 |-> in_transfer.mint,
                        amount1 |-> Normalize(in_transfer.amount, in_transfer.decimals),
                        dex |-> transfers[out_idx].dex,
                        decimals0 |-> out_transfer.decimals,
                        decimals1 |-> in_transfer.decimals]
           IN MatchOutgoing(transfers, outgoing, incoming, k + 1,
                            used_incoming \cup {inc_pos}, Append(acc, swap))

ExtractSwapsFromInnerSet(instructions, token_map, owner_map, account_keys, who, outer_dex) ==
    LET transfers == WalkInstructions(instructions, 1, token_map, account_keys,
                                      outer_dex, <<>>)
        outgoing == OwnedPositions(transfers, owner_map, who, "source", 1)
        incoming == OwnedPositions(transfers, owner_map, who, "destination", 1)
    IN MatchOutgoing(transfers, outgoing, incoming, 1, {}, <<>>)

\* faulty variant: the swaps of an inner set go in front of the earlier ones
PrependSwaps(inner_swaps, later_swaps) == later_swaps \o inner_swaps

\* `swaps.extend(inner_swaps)`, set after set
ExtendSwaps(inner_swaps, later_swaps) == inner_swaps \o later_swaps

RECURSIVE ExtractSwapsFrom(_, _)
ExtractSwapsFrom(t, n) ==
    IF n > Len(t.inner_instructions) THEN <<>>
    ELSE
      LET inner_set == t.inner_instructions[n]
          outer_dex == KeyAt(GetOuterInstructions(t), inner_set.index)
          who == StrOrEmpty(signer(t))
      IN ExtendSwaps(
           ExtractSwapsFromInnerSet(inner_set.instructions, BuildTokenMap(t),
                                    BuildOwnerMap(t), GetAccountKeys(t), who, outer_dex),
           ExtractSwapsFrom(t, n + 1))

ExtractSwaps(t) == IF ~t.has_meta THEN <<>> ELSE ExtractSwapsFrom(t, 1)

(***************************************************************************)
(* extract_token_changes (parsers/swap.rs).                                *)
(***************************************************************************)
\* `x as i64` of a u64
AsI64(u) == IF u > I64Max THEN u - Pow(2, AmountBits) ELSE u

\* two's-complement wrap of an i64 result (release build)
WrapI64(x) == ((x - I64Min) % Pow(2, AmountBits)) + I64Min

\* `post_amt as i64 - pre_amt as i64`
Delta(pre_amt, post_amt) == WrapI64(AsI64(post_amt) - AsI64(pre_amt))

\* the subtraction overflows i64: a panic where overflow checks are compiled in
DeltaOverflows(pre_amt, post_amt) ==
    LET d == AsI64(post_amt) - AsI64(pre_amt) IN d < I64Min \/ d > I64Max

\* HashMap<usize, _>::insert over a balance table: the last row of an index wins
LastRow(rows, idx) ==
    rows[CHOOSE i \in 1..Len(rows) :
           rows[i].account_index = idx
           /\ \A j \in 1..Len(rows) : rows[j].account_index = idx => j <= i]

Indices(rows) == {rows[i].account_index : i \in 1..Len(rows)}

\* the account indices for which the filter_map closure returns Some
ChangedIndices(t) ==
    IF ~t.has_meta THEN {}
    ELSE {idx \in Indices(t.post_token_balances) :
            /\ idx \in Indices(t.pre_token_balances)
            /\ ParseU64(LastRow(t.pre_token_balances, idx).amount) # NoNum
            /\ ParseU64(LastRow(t.post_token_balances, idx).amount) # NoNum
            /\ ParseU64(LastRow(t.pre_token_balances, idx).amount)
                 # ParseU64(LastRow(t.post_token_balances, idx).amount)}

TokenChangeAt(t, idx) ==
    LET pre == LastRow(t.pre_token_balances, idx)
        post == LastRow(t.post_token_balances, idx)
    IN [account_index |-> idx,
        mint |-> post.mint,
        owner |-> StrOrEmpty(post.owner),
        pre_amount |-> ParseU64(pre.amount),
        post_amount |-> ParseU64(post.amount),
        delta |-> Delta(ParseU64(pre.amount), ParseU64(post.amount)),
        decimals |-> post.decimals]

\* the TokenChange records of a transaction; their order in the returned Vec
\* is the iteration order of post_map.keys(), which is unspecified
TokenChangeSet(t) == {TokenChangeAt(t, idx) : idx \in ChangedIndices(t)}

\* some subtraction of the call overflows
TokenChangesOverflow(t) ==
    \E idx \in ChangedIndices(t) :
        DeltaOverflows(ParseU64(LastRow(t.pre_token_balances, idx).amount),
                       ParseU64(LastRow(t.post_token_balances, idx).amount))

\* all orderings of a finite set
RECURSIVE Orderings(_)
Orderings(S) ==
    IF S = {} THEN {<<>>}
    ELSE UNION {{<<x>> \o rest : rest \in Orderings(S \ {x})} : x \in S}

(***************************************************************************)
(* Arbitrage classifier (detectors/mod.rs).                                *)
(***************************************************************************)
\* faulty variant: the band without its end points
is_stablecoin_exclusive(token, pm) ==
    IF token \in DOMAIN pm THEN pm[token] > StableLow /\ pm[token] < StableHigh
    ELSE FALSE

is_stablecoin(token, pm) ==
    IF token \in DOMAIN pm THEN pm[token] >= StableLow /\ pm[token] <= StableHigh
    ELSE FALSE

is_stable_pair(token1, token2, pm) == is_stablecoin(token1, pm) /\ is_stablecoin(token2, pm)

\* swaps.windows(2).all(|pair| pair[0].token1 == pair[1].token0)
IsContinuous(sw) == \A i \in 1..(Len(sw) - 1) : sw[i].token1 = sw[i + 1].token0

\* faulty variant: the two-swap block with the stable checks moved first
ClassifyTwoStableFirst(first_token, last_token, is_continuous, pm) ==
    IF is_stable_pair(first_token, last_token, pm) THEN "StablecoinArbitrage"
    ELSE IF first_token = last_token /\ is_continuous THEN "TriangleArbitrage"
    ELSE IF first_token = last_token /\ ~is_continuous THEN "CrossPairArbitrage"
    ELSE "LongTail"

\* the `swap_count == 2` block
ClassifyTwo(first_token, last_token, is_continuous, pm) ==
    IF first_token = last_token /\ is_continuous THEN "TriangleArbitrage"
    ELSE IF is_stable_pair(first_token, last_token, pm) /\ is_continuous
      THEN "StablecoinArbitrage"
    ELSE IF is_stable_pair(first_token, last_token, pm) THEN "StablecoinArbitrage"
    ELSE IF first_token = last_token /\ ~is_continuous THEN "CrossPairArbitrage"
    ELSE "LongTail"

\* the `swap_count >= 3` block
ClassifyMany(first_token, last_token, is_continuous, pm) ==
    IF is_stable_pair(first_token, last_token, pm) THEN "StablecoinArbitrage"
    ELSE IF first_token = last_token /\ ~is_continuous THEN "CrossPairArbitrage"
    ELSE IF first_token = last_token /\ is_continuous THEN "TriangleArbitrage"
    ELSE "LongTail"

classify_arbitrage(sw, pm) ==
    LET swap_count == Len(sw) IN
    IF swap_count = 0 \/ swap_count = 1 THEN "LongTail"
    ELSE LET first_token == sw[1].token0
             last_token == sw[swap_count].token1
             is_continuous == IsContinuous(sw)
         IN IF swap_count = 2
            THEN ClassifyTwo(first_token, last_token, is_continuous, pm)
            ELSE IF swap_count >= 3
              THEN ClassifyMany(first_token, last_token, is_continuous, pm)
              ELSE "LongTail"

ArbitrageTypes ==
    {"TriangleArbitrage", "StablecoinArbitrage", "CrossPairArbitrage", "LongTail"}

(***************************************************************************)
(* More FetchedTransaction accessors (types/block.rs).                     *)
(***************************************************************************)
JITO_TIP_ACCOUNTS ==
    {"96gYZGLnJYVFmbjzopPSU6QiEV5fGqZNyN9nmNhvrZU5",
     "HFqU5x63VTqvQss8hp11i4wVV8bD44PvwucfZ2bU7gRe",
     "Cw8CFyM9FkoMi7K7Crf6HNQqf4uEMzpKw6QNghXLvLkY",
     "ADaUMid9yfUytqMBgopwjb2DTLSokTSzL1zt6iGPaS49",
     "DfXygSm4jCyNCybVYYK6DwvWqjKee8pbDmJGcLWNDXjh",
     "ADuUkR4vqLUMWXxW9gh6D6L8pMSawimctcNZ5pGwDcEt",
     "DttWaMuVvTiduZRnguLF7jNxTgiMBZ1hyAumKUiL2KRL",
     "3AVi9Tg9Uo68tJfuvoKvqKNWKkC5wPdSSdeBnizKZ6jT"}

\* faulty variant: the credits of all tip recipients are added up
jito_tip_total(t) ==
    IF ~t.has_meta \/ t.encoding = "Binary" THEN NoNum
    ELSE LET hits == {i \in 1..Len(t.account_keys) :
                        /\ t.account_keys[i] \in JITO_TIP_ACCOUNTS
                        /\ i <= Len(t.pre_balances) /\ i <= Len(t.post_balances)
                        /\ t.post_balances[i] > t.pre_balances[i]}
             RECURSIVE Total(_)
             Total(S) == IF S = {} THEN 0
                         ELSE LET i == CHOOSE h \in S : TRUE
                              IN (t.post_balances[i] - t.pre_balances[i]) + Total(S \ {i})
         IN IF hits = {} THEN NoNum ELSE Total(hits)

\* Option<u64>: NoNum for None
jito_tip(t) ==
    IF ~t.has_meta \/ t.encoding = "Binary" THEN NoNum
    ELSE LET hits == {i \in 1..Len(t.account_keys) :
                        /\ t.account_keys[i] \in JITO_TIP_ACCOUNTS
                        /\ i <= Len(t.pre_balances) /\ i <= Len(t.post_balances)
                        /\ t.post_balances[i] > t.pre_balances[i]}
         IN IF hits = {} THEN NoNum
            ELSE LET i == CHOOSE h \in hits : \A g \in hits : h <= g
                 IN t.post_balances[i] - t.pre_balances[i]

compute_units_consumed(t) == IF t.has_meta THEN t.compute_units ELSE NoNum

\* Option::unwrap_or
UnwrapOr(x, d) == IF x = NoNum THEN d ELSE x

(***************************************************************************)
(* extract_dex_programs (parsers/swap.rs): sorted and deduplicated, so a   *)
(* set of program ids.                                                     *)
(***************************************************************************)
ExtractDexPrograms(t) ==
    IF t.encoding = "Binary" THEN {}
    ELSE {pid \in {IF t.instructions[i].kind = "Parsed" THEN t.instructions[i].program
                   ELSE IF t.instructions[i].kind = "PartiallyDecoded"
                     THEN t.instructions[i].program_id
                   ELSE IF t.instructions[i].program_id_index >= 0
                           /\ t.instructions[i].program_id_index < Len(t.account_keys)
                     THEN t.account_keys[t.instructions[i].program_id_index + 1]
                   ELSE NoStr : i \in 1..Len(t.instructions)} : pid # NoStr}

(***************************************************************************)
(* detect_mev, stage 1: arbitrage candidates (detectors/mod.rs).           *)
(***************************************************************************)
\* log lines of the vocabulary that contain "swap", "Swap", "Instruction: Swap"
\* or "Instruction: Transfer"
SwapLikeLogs ==
    {"Program log: Instruction: Swap", "Program log: Instruction: Transfer",
     "Program log: swap executed"}

has_potential_mev(t) ==
    IF ~t.has_meta THEN FALSE
    ELSE IF Len(t.inner_instructions) > 0 THEN TRUE
    ELSE \E i \in 1..Len(t.log_messages) : t.log_messages[i] \in SwapLikeLogs

\* `.any(|tc| tc.owner == signer && tc.delta > 0)`
HasProfit(changes, who) == \E tc \in changes : tc.owner = who /\ tc.delta > 0

\* faulty variant: the filter without `tx.is_success()`
ArbitrageCandidateAnyStatus(txs, p) ==
    LET t == txs[p]
        tx_swaps == ExtractSwaps(t)
        changes == TokenChangeSet(t)
    IN
    IF ~has_potential_mev(t) THEN <<>>
    ELSE IF Len(tx_swaps) < MinSwapCount THEN <<>>
    ELSE IF signer(t) = NoStr THEN <<>>
    ELSE IF ~HasProfit(changes, signer(t)) THEN <<>>
    ELSE << [tx |-> p, swaps |-> tx_swaps, token_changes |-> changes,
             program_addresses |-> ExtractDexPrograms(t)] >>

\* the filter and filter_map closures applied to the transaction at position p:
\* <<>> when it is dropped, <<candidate>> otherwise
ArbitrageCandidate(txs, p) ==
    LET t == txs[p]
        tx_swaps == ExtractSwaps(t)
        changes == TokenChangeSet(t)
    IN
    IF ~(is_success(t) /\ has_potential_mev(t)) THEN <<>>
    ELSE IF Len(tx_swaps) < MinSwapCount THEN <<>>
    ELSE IF signer(t) = NoStr THEN <<>>
    ELSE IF ~HasProfit(changes, signer(t)) THEN <<>>
    ELSE << [tx |-> p, swaps |-> tx_swaps, token_changes |-> changes,
             program_addresses |-> ExtractDexPrograms(t)] >>

\* par_iter().filter().filter_map().collect(): the kept items in input order
RECURSIVE CollectArbitrageCandidates(_, _)
CollectArbitrageCandidates(txs, p) ==
    IF p > Len(txs) THEN <<>>
    ELSE ArbitrageCandidate(txs, p) \o CollectArbitrageCandidates(txs, p + 1)

(***************************************************************************)
(* identify_sandwiches_lazy (detectors/mod.rs).                            *)
(***************************************************************************)
\* the keys of tx_by_signer
SignerGroups(txs) ==
    {signer(txs[p]) : p \in {q \in 1..Len(txs) : is_success(txs[q]) /\ signer(txs[q]) # NoStr}}

\* tx_by_signer[who]: positions of its transactions, in input order
RECURSIVE GroupOf(_, _, _)
GroupOf(txs, who, p) ==
    IF p > Len(txs) THEN <<>>
    ELSE (IF is_success(txs[p]) /\ signer(txs[p]) = who THEN <<p>> ELSE <<>>)
         \o GroupOf(txs, who, p + 1)

\* faulty variant: the victim scan without `.filter(|tx| tx.is_success())`
HasVictimIgnoringStatus(txs, front, back, who) ==
    \E v \in 1..Len(txs) :
        /\ txs[v].index > txs[front].index /\ txs[v].index < txs[back].index
        /\ signer(txs[v]) # NoStr /\ signer(txs[v]) # who

\* a successful transaction of another signer strictly between the two
HasVictim(txs, front, back, who) ==
    \E v \in 1..Len(txs) :
        /\ txs[v].index > txs[front].index /\ txs[v].index < txs[back].index
        /\ is_success(txs[v])
        /\ signer(txs[v]) # NoStr /\ signer(txs[v]) # who

\* front_pair == back_pair, the pairs being the two tokens in sorted order
SamePair(front_swap, back_swap) ==
    {front_swap.token0, front_swap.token1} = {back_swap.token0, back_swap.token1}

\* faulty variant: the direction test never fires
SameDirectionNever(front_swap, back_swap) == FALSE

SameDirection(front_swap, back_swap) ==
    front_swap.token0 = back_swap.token0 /\ front_swap.token1 = back_swap.token1

\* extract_swaps of every transaction of the block (the parser is a pure
\* function of the transaction: parsed[p] stands for extract_swaps(txs[p]))
RECURSIVE ParseAll(_, _)
ParseAll(txs, p) ==
    IF p > Len(txs) THEN <<>> ELSE <<ExtractSwaps(txs[p])>> \o ParseAll(txs, p + 1)

\* faulty variant: transactions with several swaps are paired by their first
AtLeastOneSwapEach(front_swaps, back_swaps) ==
    Len(front_swaps) >= 1 /\ Len(back_swaps) >= 1

\* the negation of `front_swaps.len() != 1 || back_swaps.len() != 1`
OneSwapEach(front_swaps, back_swaps) ==
    Len(front_swaps) = 1 /\ Len(back_swaps) = 1

\* the checks of the inner loop body that do not `continue`
Pairable(txs, parsed, front, back, who) ==
    /\ HasVictim(txs, front, back, who)
    /\ OneSwapEach(parsed[front], parsed[back])
    /\ SamePair(parsed[front][1], parsed[back][1])
    /\ ~SameDirection(parsed[front][1], parsed[back][1])

VictimProgs(txs, front, back, who) ==
    UNION {ExtractDexPrograms(txs[v]) :
             v \in {u \in 1..Len(txs) :
                      /\ txs[u].index > txs[front].index /\ txs[u].index < txs[back].index
                      /\ is_success(txs[u])
                      /\ signer(txs[u]) # NoStr /\ signer(txs[u]) # who}}

OwnedSandwich(txs, parsed, front, back, who) ==
    LET front_swap == parsed[front][1] IN
    [front_run_tx |-> front, back_run_tx |-> back,
     front_run_swaps |-> parsed[front],
     back_run_swaps |-> parsed[back],
     front_run_changes |-> TokenChangeSet(txs[front]),
     back_run_changes |-> TokenChangeSet(txs[back]),
     front_run_progs |-> ExtractDexPrograms(txs[front]),
     back_run_progs |-> ExtractDexPrograms(txs[back]),
     signer |-> who,
     sandwiched_token |-> IF front_swap.token0 = SOL THEN front_swap.token1
                          ELSE IF front_swap.token1 = SOL THEN front_swap.token0
                          ELSE front_swap.token1,
     victim_progs |-> VictimProgs(txs, front, back, who)]

\* faulty variant: only the front-run is marked
MarkFrontOnly(used, i, j) == used \cup {i}

\* `used[i] = true; used[j] = true;`
MarkUsed(used, i, j) == used \cup {i, j}

\* faulty variant: the inner loop keeps the last transaction that passes
LastOf(backs) == CHOOSE b \in backs : \A c \in backs : b >= c

\* the inner loop `for j in (i + 1)..txs.len()` stops at the first
\* transaction that passes: `break`
FirstOf(backs) == CHOOSE b \in backs : \A c \in backs : b <= c

\* the greedy scan of one signer group: group is tx_by_signer[who], i the outer
\* loop index, used the set of used positions of the group
RECURSIVE GreedyMatch(_, _, _, _, _, _)
GreedyMatch(txs, parsed, who, group, i, used) ==
    IF i > Len(group) THEN <<>>
    ELSE IF i \in used THEN GreedyMatch(txs, parsed, who, group, i + 1, used)
    ELSE
      LET backs == {j \in (i + 1)..Len(group) :
                      j \notin used /\ Pairable(txs, parsed, group[i], group[j], who)}
      IN IF backs = {} THEN GreedyMatch(txs, parsed, who, group, i + 1, used)
         ELSE LET j == FirstOf(backs)
              IN <<OwnedSandwich(txs, parsed, group[i], group[j], who)>>
                 \o GreedyMatch(txs, parsed, who, group, i + 1, MarkUsed(used, i, j))

\* one iteration of `for (signer, txs) in tx_by_signer.iter()`
GroupCandidates(txs, who) ==
    LET group == GroupOf(txs, who, 1)
    IN IF Len(group) < 2 THEN <<>>
       ELSE GreedyMatch(txs, ParseAll(txs, 1), who, group, 1, {})

(***************************************************************************)
(* detect_mev: the mints to price and the batched price fetch.             *)
(***************************************************************************)
OwnedNonZeroMints(changes, who) ==
    {c.mint : c \in {d \in changes : d.owner = who /\ d.delta # 0}}

\* faulty variant: the loop over the sandwich candidates is missing
UniqueMintsOfArbitrages(txs, arbs, sands) ==
    {SOL}
    \cup UNION {IF signer(txs[arbs[k].tx]) = NoStr THEN {}
                ELSE OwnedNonZeroMints(arbs[k].token_changes, signer(txs[arbs[k].tx])) :
                k \in 1..Len(arbs)}

UniqueMints(txs, arbs, sands) ==
    {SOL}
    \cup UNION {IF signer(txs[arbs[k].tx]) = NoStr THEN {}
                ELSE OwnedNonZeroMints(arbs[k].token_changes, signer(txs[arbs[k].tx])) :
                k \in 1..Len(arbs)}
    \cup UNION {OwnedNonZeroMints(sands[k].front_run_changes, sands[k].signer)
                \cup OwnedNonZeroMints(sands[k].back_run_changes, sands[k].signer) :
                k \in 1..Len(sands)}

\* batch_get_prices: one (mint, price) per requested mint, 0.0 when the service
\* has no price; collected into the price map
BatchGetPrices(mints, answers) ==
    [m \in mints |-> IF m \in DOMAIN answers THEN answers[m] ELSE 0]

(***************************************************************************)
(* Profit accounting (detectors/mod.rs).                                   *)
(***************************************************************************)
\* default prices, in cents
ARB_DEFAULT_SOL_PRICE == 13000
SANDWICH_DEFAULT_SOL_PRICE == 12700
PAYMENT_DEFAULT_SOL_PRICE == 13000
PAYMENT_DEFAULT_PRICE == 100
\* the base signature fee subtracted for priority_fee
BASE_FEE == 5000

RECURSIVE SumOver(_, _)
\* the sum of F[x] over the finite set S
SumOver(S, F) ==
    IF S = {} THEN 0
    ELSE LET x == CHOOSE y \in S : TRUE IN F[x] + SumOver(S \ {x}, F)

\* the sum of the deltas of the changes of a mint (entry.0 += change.delta)
DeltaSum(changes, mint) ==
    LET cs == {c \in changes : c.mint = mint}
    IN SumOver(cs, [c \in cs |-> c.delta])

\* the possible contents of a (i64, u8)-by-mint HashMap filled from `first`
\* and then `later` change lists: the delta is the sum, the decimals are those
\* of the change of the mint that was inserted first
ChangesByMint(first, later) ==
    LET all == first \cup later
        mints == {c.mint : c \in all}
        DecimalsOf(m) == IF \E c \in first : c.mint = m
                         THEN {c.decimals : c \in {d \in first : d.mint = m}}
                         ELSE {c.decimals : c \in {d \in later : d.mint = m}}
        choices == {f \in [mints -> UNION {DecimalsOf(m) : m \in mints}] :
                      \A m \in mints : f[m] \in DecimalsOf(m)}
    IN {[m \in mints |-> [delta |-> DeltaSum(first, m) + DeltaSum(later, m),
                          decimals |-> f[m]]] : f \in choices}

\* the Vec<SimpleTokenChange> collected from the map, in any iteration order
SimpleTokenChanges(by_mint) ==
    Orderings({[mint |-> m, delta |-> by_mint[m].delta, decimals |-> by_mint[m].decimals] :
                 m \in DOMAIN by_mint})

PriceOr(pm, mint, default) == IF mint \in DOMAIN pm THEN pm[mint] ELSE default

\* faulty variant: break-even events are kept
ProfitableOrZero(profit_usd) == profit_usd >= 0

\* `.filter(|arb| arb.profitability.profit_usd > 0.0)` and the sandwich
\* `if profit_usd <= 0.0 { continue; }`
Profitable(profit_usd) == profit_usd > 0

NoEvent == [type |-> "None"]

\* faulty variant: the LongTail filter is missing
DiscardNothing(kind) == FALSE

\* `if matches!(arbitrage_type, ArbitrageType::LongTail) { return None; }`
DiscardLongTail(kind) == kind = "LongTail"

\* faulty variant: a net position of exactly 1.0 counts as significant
IsSignificantInclusive(amount) == Abs(amount) >= Pow(10, UnitDecimals)

\* `let is_significant = amount.abs() > 1.0;`
IsSignificant(amount) == Abs(amount) > Pow(10, UnitDecimals)

\* detect_arbitrage_with_prices followed by the profit filter: the events the
\* candidate can become (NoEvent when it is dropped)
ArbitrageOutcomes(txs, cand, pm) ==
    LET t == txs[cand.tx]
        who == signer(t)
        kind == classify_arbitrage(cand.swaps, pm)
        signer_changes == {tc \in cand.token_changes : tc.owner = who}
    IN
    IF who = NoStr \/ Len(cand.swaps) < MinSwapCount THEN {NoEvent}
    ELSE IF DiscardLongTail(kind) THEN {NoEvent}
    ELSE IF ~(\E tc \in signer_changes : tc.delta > 0) THEN {NoEvent}
    ELSE
      UNION {
        LET Net(m) == Normalize(by_mint[m].delta, by_mint[m].decimals)
            mints == DOMAIN by_mint
            gains == {m \in mints : Net(m) > 0}
            losses == {m \in mints : Net(m) < 0}
            gross == SumOver(gains, [m \in gains |-> Abs(Net(m)) * PriceOr(pm, m, 0)])
            cost_usd == SumOver(losses, [m \in losses |-> Abs(Net(m)) * PriceOr(pm, m, 0)])
            revenue_usd == gross - cost_usd
            unsupported == {m \in gains \cup losses :
                              PriceOr(pm, m, 0) = 0 /\ IsSignificant(Net(m))}
            fee_ == UnwrapOr(fee(t), 0)
            tip == UnwrapOr(jito_tip(t), 0)
            fees_usd == (fee_ + tip) * PriceOr(pm, SOL, ARB_DEFAULT_SOL_PRICE)
            profit_usd == revenue_usd - fees_usd
        IN IF ~Profitable(profit_usd) THEN {NoEvent}
           ELSE {[type |-> "Arbitrage",
                  signature |-> t.signature,
                  signer |-> who,
                  compute_units_consumed |-> UnwrapOr(compute_units_consumed(t), 0),
                  fee |-> fee_,
                  priority_fee |-> IF fee_ > BASE_FEE THEN fee_ - BASE_FEE ELSE 0,
                  jito_tip |-> tip,
                  swaps |-> cand.swaps,
                  program_addresses |-> cand.program_addresses,
                  token_changes |-> out,
                  profitability |-> [revenue_usd |-> revenue_usd, fees_usd |-> fees_usd,
                                     profit_usd |-> profit_usd,
                                     unsupported_profit_tokens |-> uns],
                  arbitrage_type |-> kind] :
                 out \in SimpleTokenChanges(by_mint), uns \in Orderings(unsupported)}
        : by_mint \in ChangesByMint(signer_changes, {})}

SandwichTransaction(t, who, tx_swaps) ==
    [signature |-> t.signature, index |-> t.index, signer |-> who,
     compute_units |-> UnwrapOr(compute_units_consumed(t), 0),
     fee |-> UnwrapOr(fee(t), 0), swap |-> tx_swaps]

\* faulty variant: received is read from the back-run in both branches
ReceivedFromBack(front_swap, back_swap, payment_token) == back_swap.amount1

\* the second component of `let (spent, received) = if front_swap.token0 == payment_token`
Received(front_swap, back_swap, payment_token) ==
    IF front_swap.token0 = payment_token THEN back_swap.amount1 ELSE front_swap.amount1

\* one iteration of the loop of calculate_sandwich_profitability
SandwichOutcomes(txs, cand, pm) ==
    LET front_tx == txs[cand.front_run_tx]
        back_tx == txs[cand.back_run_tx]
        front_swap == cand.front_run_swaps[1]
        back_swap == cand.back_run_swaps[1]
        payment_token == IF front_swap.token0 = SOL \/ front_swap.token1 = SOL THEN SOL
                         ELSE front_swap.token0
        spent == IF front_swap.token0 = payment_token THEN front_swap.amount0
                 ELSE back_swap.amount0
        received == Received(front_swap, back_swap, payment_token)
        profit_in_token == received - spent
        token_price == PriceOr(pm, payment_token,
                               IF payment_token = SOL THEN PAYMENT_DEFAULT_SOL_PRICE
                               ELSE PAYMENT_DEFAULT_PRICE)
        revenue_usd == (IF profit_in_token > 0 THEN profit_in_token ELSE 0) * token_price
        total_fees == UnwrapOr(fee(front_tx), 0) + UnwrapOr(fee(back_tx), 0)
        total_jito_tips == UnwrapOr(jito_tip(front_tx), 0) + UnwrapOr(jito_tip(back_tx), 0)
        fees_usd == (total_fees + total_jito_tips)
                      * PriceOr(pm, SOL, SANDWICH_DEFAULT_SOL_PRICE)
        profit_usd == revenue_usd - fees_usd
        mine(changes) == {c \in changes : c.owner = cand.signer}
    IN IF ~Profitable(profit_usd) THEN {NoEvent}
       ELSE UNION {
         {[type |-> "Sandwich",
           slot |-> 0,
           signer |-> cand.signer,
           sandwiched_token |-> cand.sandwiched_token,
           front_run |-> SandwichTransaction(front_tx, cand.signer, cand.front_run_swaps),
           back_run |-> SandwichTransaction(back_tx, cand.signer, cand.back_run_swaps),
           total_compute_units |-> UnwrapOr(compute_units_consumed(front_tx), 0)
                                     + UnwrapOr(compute_units_consumed(back_tx), 0),
           total_fees |-> total_fees,
           total_jito_tips |-> total_jito_tips,
           program_addresses |-> cand.front_run_progs \cup cand.victim_progs
                                   \cup cand.back_run_progs,
           token_changes |-> out,
           profitability |-> [revenue_usd |-> revenue_usd, fees_usd |-> fees_usd,
                              profit_usd |-> profit_usd,
                              unsupported_profit_tokens |-> <<>>]] :
          out \in SimpleTokenChanges(by_mint)}
         : by_mint \in ChangesByMint(mine(cand.front_run_changes),
                                     mine(cand.back_run_changes))}

\* the lists a loop over the candidates can push: one outcome per candidate,
\* in candidate order, dropped candidates leaving nothing
RECURSIVE EventLists(_, _)
EventLists(outcomes, k) ==
    IF k > Len(outcomes) THEN {<<>>}
    ELSE {(IF e = NoEvent THEN <<>> ELSE <<e>>) \o rest :
            e \in outcomes[k], rest \in EventLists(outcomes, k + 1)}

ArbitrageEventLists(txs, cands, pm) ==
    EventLists([k \in 1..Len(cands) |-> ArbitrageOutcomes(txs, cands[k], pm)], 1)

SandwichEventLists(txs, cands, pm) ==
    EventLists([k \in 1..Len(cands) |-> SandwichOutcomes(txs, cands[k], pm)], 1)

(***************************************************************************)
(* Inputs.  Transactions are built from a small vocabulary of accounts,    *)
(* mints and instructions; every field the parser reads is present.        *)
(***************************************************************************)
\* bounds of the input families
MaxInsts == 3
MaxSwaps == 3
MaxBalanceRows == 2

TOKA == "TokenA1111111111111111111111111111111111111"
DEX_A == "DexA111111111111111111111111111111111111111"
DEX_B == "DexB111111111111111111111111111111111111111"
POOL == "PoolAuthority111111111111111111111111111111"

NoParsed ==
    [is_object |-> FALSE, type |-> NoStr, has_info |-> FALSE, source |-> NoStr,
     account |-> NoStr, destination |-> NoStr, mint |-> NoStr, amount |-> NoNum,
     ta_amount |-> NoNum, ta_decimals |-> NoNum, lamports |-> NoNum]

\* spl-token `transfer` {source, destination, amount}
TokenTransfer(src, dst, amt) ==
    [kind |-> "Parsed", program |-> "spl-token", program_id |-> "", program_id_index |-> 0,
     parsed |-> [NoParsed EXCEPT !.is_object = TRUE, !.type = "transfer", !.has_info = TRUE,
                                 !.source = src, !.destination = dst, !.amount = amt]]

\* spl-token `transferChecked` {source, mint, destination, tokenAmount{amount, decimals}}
TokenTransferChecked(src, mint, dst, amt, dec) ==
    [kind |-> "Parsed", program |-> "spl-token", program_id |-> "", program_id_index |-> 0,
     parsed |-> [NoParsed EXCEPT !.is_object = TRUE, !.type = "transferChecked",
                                 !.has_info = TRUE, !.source = src, !.mint = mint,
                                 !.destination = dst, !.ta_amount = amt, !.ta_decimals = dec]]

\* system `transfer` {source, destination, lamports}
SystemTransfer(src, dst, lamports) ==
    [kind |-> "Parsed", program |-> "system", program_id |-> "", program_id_index |-> 0,
     parsed |-> [NoParsed EXCEPT !.is_object = TRUE, !.type = "transfer", !.has_info = TRUE,
                                 !.source = src, !.destination = dst, !.lamports = lamports]]

\* a fully parsed instruction of another kind (e.g. spl-token closeAccount)
ParsedOther(program, type) ==
    [kind |-> "Parsed", program |-> program, program_id |-> "", program_id_index |-> 0,
     parsed |-> [NoParsed EXCEPT !.is_object = TRUE, !.type = type, !.has_info = TRUE]]

CompiledInst(idx) ==
    [kind |-> "Compiled", program |-> "", program_id |-> "", program_id_index |-> idx,
     parsed |-> NoParsed]

PartiallyDecoded(pid) ==
    [kind |-> "PartiallyDecoded", program |-> "", program_id |-> pid, program_id_index |-> 0,
     parsed |-> NoParsed]

BalanceRow(idx, mint, owner, amount, decimals) ==
    [account_index |-> idx, mint |-> mint, owner |-> owner, amount |-> amount,
     decimals |-> decimals]

\* a transaction with no instructions and no balances
BlankTx(who) ==
    [signature |-> "sig", index |-> 0, encoding |-> "Parsed",
     account_keys |-> <<who>>, instructions |-> <<>>,
     has_meta |-> TRUE, err |-> FALSE, fee |-> 5000, compute_units |-> NoNum,
     inner_instructions |-> <<>>, log_messages |-> <<>>,
     pre_token_balances |-> <<>>, post_token_balances |-> <<>>,
     pre_balances |-> <<>>, post_balances |-> <<>>]

\* all sequences over S of length <= n
SeqsUpTo(S, n) == UNION {[1..k -> S] : k \in 0..n}

(***************************************************************************)
(* Specification SpecParser: extract_swaps on one transaction.             *)
(***************************************************************************)
\* signer S1 holds a1 (wrapped SOL) and a2 (TOKA); the pool holds p1 and p2
ParserKeys == <<"S1", "a1", "a2", "p1", "p2", DEX_A, DEX_B, TOKEN_PROGRAM>>

ParserBalances ==
    << BalanceRow(1, SOL, "S1", 5, 9), BalanceRow(2, TOKA, "S1", 5, 8),
       BalanceRow(3, SOL, POOL, 5, 9), BalanceRow(4, TOKA, POOL, 5, 8) >>

ParserInstructions ==
    {TokenTransfer(m[1], m[2], amt) :
        m \in {<<"a1", "p1">>, <<"a2", "p2">>, <<"p1", "a1">>, <<"p2", "a2">>},
        amt \in {0, 1, 2}}
    \cup {SystemTransfer("a1", "p1", 1),
          TokenTransferChecked("x9", BONK, "a2", 2, 5),
          ParsedOther("spl-token", "closeAccount"),
          CompiledInst(5), CompiledInst(7), PartiallyDecoded(DEX_B)}

ParserTx(insts) ==
    [BlankTx("S1") EXCEPT
        !.account_keys = ParserKeys,
        !.instructions = <<CompiledInst(5)>>,
        !.inner_instructions = IF insts = <<>> THEN <<>>
                               ELSE << [index |-> 0, instructions |-> insts] >>,
        !.pre_token_balances = ParserBalances,
        !.post_token_balances = ParserBalances]

NoTx == BlankTx(NoStr)

ParserIdle == tx = NoTx /\ swaps = <<>> /\ token_changes = <<>>
ClassifierIdle == arbitrage_type = NoStr
MevIdle ==
    /\ transactions = <<>> /\ oracle = <<>> /\ arbitrage_candidates = <<>>
    /\ sandwich_candidates = <<>> /\ groups_left = {} /\ events = <<>>
    /\ first_events = <<>> /\ call_no = 0

\* no fetch_block call, stream or run is in progress
NoFetcher ==
    [max_retries |-> 0, retry_delay_ms |-> 0, slot |-> 0, retries |-> 0, attempts |-> 0,
     delays |-> <<>>, last_error |-> "None", result |-> "None"]
NoStream ==
    [running |-> FALSE, current_slot |-> 0, consecutive_unavailable |-> 0, sent |-> <<>>]
NoRunner ==
    [mode |-> "None", start |-> 0, end |-> 0, slot |-> 0, results |-> <<>>,
     logged |-> <<>>, output |-> <<>>]
NoRpc == [tip |-> 0, skipped |-> {}]
\* no OracleClient and no RateLimiter is in use
NoOracleClient == [price_cache |-> <<>>, fetched |-> <<>>, results |-> <<>>, calls |-> 0]
NoLimiter ==
    [permits_per_second |-> 0, available_permits |-> 0, elapsed |-> 0,
     permits_lock |-> "free", last_refill_lock |-> "free", at |-> <<>>, returned |-> 0]
SharedIdle == oracle_client = NoOracleClient /\ limiter = NoLimiter /\ tip_result = NoNum

NetIdle ==
    /\ fetcher = NoFetcher /\ stream = NoStream /\ runner = NoRunner /\ rpc = NoRpc
    /\ SharedIdle
IoIdle == price_fetches = <<>> /\ worker_results = <<>> /\ NetIdle

mev_vars == <<transactions, oracle, arbitrage_candidates, sandwich_candidates,
              groups_left, events, first_events, call_no>>

InitParser ==
    /\ pc = "extract_swaps"
    /\ tx \in {ParserTx(insts) : insts \in SeqsUpTo(ParserInstructions, MaxInsts)}
    /\ swaps = <<>> /\ token_changes = <<>>
    /\ price_map = <<>>
    /\ ClassifierIdle /\ MevIdle
    /\ IoIdle

\* SwapParser::extract_swaps(tx)
ExtractSwapsCall ==
    /\ pc = "extract_swaps"
    /\ swaps' = ExtractSwaps(tx)
    /\ pc' = "swaps_returned"
    /\ UNCHANGED <<tx, token_changes, arbitrage_type, price_map, mev_vars>>
    /\ UNCHANGED io_vars

NextParser == ExtractSwapsCall

SpecParser == InitParser /\ [][NextParser]_vars

(***************************************************************************)
(* Specification SpecTokenChanges: extract_token_changes on one            *)
(* transaction.                                                            *)
(***************************************************************************)
\* amounts at the edges of u64 / i64, and an unparseable one
EdgeAmounts == {0, 1, Pow(2, AmountBits - 1), U64Max, NotNumeric}

TokenChangeRows ==
    {BalanceRow(idx, IF idx = 0 THEN SOL ELSE TOKA, IF idx = 0 THEN "S1" ELSE NoStr, amt, 9) :
        idx \in {0, 1}, amt \in EdgeAmounts}

InitTokenChanges ==
    /\ pc = "extract_token_changes"
    /\ \E pre \in SeqsUpTo(TokenChangeRows, MaxBalanceRows),
          post \in SeqsUpTo(TokenChangeRows, MaxBalanceRows) :
         tx = [BlankTx("S1") EXCEPT !.account_keys = <<"S1", "a1">>,
                                    !.pre_token_balances = pre,
                                    !.post_token_balances = post]
    /\ swaps = <<>> /\ token_changes = <<>>
    /\ price_map = <<>>
    /\ ClassifierIdle /\ MevIdle
    /\ IoIdle

\* SwapParser::extract_token_changes(tx) returns; the Vec is in the order the
\* HashMap yields the account indices
ExtractTokenChangesReturn ==
    /\ pc = "extract_token_changes"
    /\ token_changes' \in Orderings(TokenChangeSet(tx))
    /\ pc' = "token_changes_returned"
    /\ UNCHANGED <<tx, swaps, arbitrage_type, price_map, mev_vars>>
    /\ UNCHANGED io_vars

\* with overflow checks compiled in (the dev profile), an overflowing
\* `post_amt as i64 - pre_amt as i64` panics instead of wrapping
ExtractTokenChangesPanic ==
    /\ pc = "extract_token_changes"
    /\ TokenChangesOverflow(tx)
    /\ pc' = "panicked"
    /\ UNCHANGED <<tx, swaps, token_changes, arbitrage_type, price_map, mev_vars>>
    /\ UNCHANGED io_vars

NextTokenChanges == ExtractTokenChangesReturn \/ ExtractTokenChangesPanic

SpecTokenChanges == InitTokenChanges /\ [][NextTokenChanges]_vars

(***************************************************************************)
(* Specification SpecClassify: classify_arbitrage on any swap list and     *)
(* price map.                                                              *)
(***************************************************************************)
ClassifyTokens == {SOL, USDC, USDT}

\* prices around the stablecoin band, in cents; NoNum: the map has no entry
ClassifyPrices == {NoNum, StableLow - 1, StableLow, StableHigh, StableHigh + 1}

SwapOf(t0, t1) ==
    [token0 |-> t0, amount0 |-> Normalize(1, 9), token1 |-> t1, amount1 |-> Normalize(1, 9),
     dex |-> DEX_A, decimals0 |-> 9, decimals1 |-> 9]

\* the map holding the entries of f that are not NoNum
PriceMapOf(f) == [m \in {k \in DOMAIN f : f[k] # NoNum} |-> f[m]]

InitClassify ==
    /\ pc = "classify_arbitrage"
    /\ swaps \in SeqsUpTo({SwapOf(a, b) : a \in ClassifyTokens, b \in ClassifyTokens}, MaxSwaps)
    /\ \E f \in [ClassifyTokens -> ClassifyPrices] : price_map = PriceMapOf(f)
    /\ tx = NoTx /\ token_changes = <<>>
    /\ ClassifierIdle /\ MevIdle
    /\ IoIdle

\* MevInspector::classify_arbitrage(swaps, price_map)
ClassifyCall ==
    /\ pc = "classify_arbitrage"
    /\ arbitrage_type' = classify_arbitrage(swaps, price_map)
    /\ pc' = "classified"
    /\ UNCHANGED <<tx, swaps, token_changes, price_map, mev_vars>>
    /\ UNCHANGED io_vars

NextClassify == ClassifyCall

SpecClassify == InitClassify /\ [][NextClassify]_vars

(***************************************************************************)
(* Specification Spec: detect_mev on one block.                            *)
(***************************************************************************)
MaxTxs == 4

Attackers == {"S1", "S2"}

WsolAccount(who) == IF who = "S1" THEN "S1-wsol" ELSE "S2-wsol"
TokaAccount(who) == IF who = "S1" THEN "S1-toka" ELSE "S2-toka"
UserAccount(who, mint) == IF mint = SOL THEN WsolAccount(who) ELSE TokaAccount(who)
PoolAccount(mint) == IF mint = SOL THEN "pool-wsol" ELSE "pool-toka"
MintDecimals(mint) == IF mint = SOL THEN 9 ELSE 8

\* one trade leg: the signer sends `give` of mint `sell` to the pool and
\* receives `get` of mint `buy`
Leg(sell, give, buy, get) == [sell |-> sell, give |-> give, buy |-> buy, get |-> get]

RECURSIVE LegInstructions(_, _, _)
LegInstructions(who, legs, k) ==
    IF k > Len(legs) THEN <<>>
    ELSE << TokenTransfer(UserAccount(who, legs[k].sell), PoolAccount(legs[k].sell),
                          legs[k].give),
            TokenTransfer(PoolAccount(legs[k].buy), UserAccount(who, legs[k].buy),
                          legs[k].get) >>
         \o LegInstructions(who, legs, k + 1)

\* what the legs add to the signer's balance of a mint
LegsNet(legs, mint) ==
    LET ks == DOMAIN legs
    IN SumOver(ks, [k \in ks |-> (IF legs[k].buy = mint THEN legs[k].get ELSE 0)
                                   - (IF legs[k].sell = mint THEN legs[k].give ELSE 0)])

\* the transaction at 0-based block index idx in which `who` trades the legs
\* through DEX_A, with token balances before and after that agree with them
TradeTx(idx, who, legs, failed) ==
    [BlankTx(who) EXCEPT
        !.signature = ToString(idx),
        !.index = idx,
        !.account_keys = <<who, WsolAccount(who), TokaAccount(who), PoolAccount(SOL),
                           PoolAccount(TOKA), DEX_A, TOKEN_PROGRAM>>,
        !.instructions = <<CompiledInst(5)>>,
        !.err = failed,
        !.fee = 1,
        !.inner_instructions =
            IF legs = <<>> THEN <<>>
            ELSE << [index |-> 0, instructions |-> LegInstructions(who, legs, 1)] >>,
        !.pre_token_balances =
            << BalanceRow(1, SOL, who, 20, MintDecimals(SOL)),
               BalanceRow(2, TOKA, who, 20, MintDecimals(TOKA)),
               BalanceRow(3, SOL, POOL, 100, MintDecimals(SOL)),
               BalanceRow(4, TOKA, POOL, 100, MintDecimals(TOKA)) >>,
        !.post_token_balances =
            << BalanceRow(1, SOL, who, 20 + LegsNet(legs, SOL), MintDecimals(SOL)),
               BalanceRow(2, TOKA, who, 20 + LegsNet(legs, TOKA), MintDecimals(TOKA)),
               BalanceRow(3, SOL, POOL, 100 - LegsNet(legs, SOL), MintDecimals(SOL)),
               BalanceRow(4, TOKA, POOL, 100 - LegsNet(legs, TOKA), MintDecimals(TOKA)) >>]

BuyLegs == << Leg(SOL, 2, TOKA, 4) >>
SellLegs == << Leg(TOKA, 4, SOL, 5) >>
RoundTripLegs == BuyLegs \o SellLegs

\* the transactions a block is made of: <<signer, legs, failed>>
TxKinds ==
    {<<who, legs, FALSE>> : who \in Attackers, legs \in {BuyLegs, SellLegs}}
    \cup {<<"S1", RoundTripLegs, FALSE>>}
    \cup {<<who, BuyLegs, TRUE>> : who \in Attackers}

\* the answers of the price service: SOL is priced at 150 USD, or the fetch
\* fails; TOKA has no feed
OracleAnswers == {[m \in {SOL} |-> p] : p \in {0, 15000}}

\* the block holding the planned transactions, indexed as format_block does
BlockOf(plan) ==
    [i \in 1..Len(plan) |-> TradeTx(i - 1, plan[i][1], plan[i][2], plan[i][3])]

InitCall ==
    /\ pc = "detect_mev"
    /\ arbitrage_candidates = <<>> /\ sandwich_candidates = <<>>
    /\ groups_left = {} /\ events = <<>> /\ first_events = <<>> /\ call_no = 1
    /\ price_map = <<>>
    /\ ParserIdle /\ ClassifierIdle
    /\ IoIdle

InitMev ==
    /\ InitCall
    /\ \E plan \in SeqsUpTo(TxKinds, MaxTxs) : transactions = BlockOf(plan)
    /\ oracle \in OracleAnswers

parser_vars == <<tx, swaps, token_changes, arbitrage_type>>

\* the parallel filter / filter_map / collect over the transactions
FindArbitrageCandidates ==
    /\ pc = "detect_mev"
    /\ arbitrage_candidates' = CollectArbitrageCandidates(transactions, 1)
    /\ sandwich_candidates' = <<>>
    /\ groups_left' = IF Len(transactions) >= 3 THEN SignerGroups(transactions) ELSE {}
    /\ pc' = "identify_sandwiches"
    /\ UNCHANGED <<parser_vars, price_map, transactions, oracle, events, first_events,
                   call_no>>
    /\ UNCHANGED io_vars

\* identify_sandwiches_lazy: the HashMap yields the next signer group
SandwichGroup ==
    /\ pc = "identify_sandwiches"
    /\ \E who \in groups_left :
         /\ sandwich_candidates' = sandwich_candidates \o GroupCandidates(transactions, who)
         /\ groups_left' = groups_left \ {who}
    /\ UNCHANGED <<pc, parser_vars, price_map, transactions, oracle, arbitrage_candidates,
                   events, first_events, call_no>>
    /\ UNCHANGED io_vars

\* `if arbitrage_candidates.is_empty() && sandwich_candidates.is_empty()`
EarlyExit ==
    /\ pc = "identify_sandwiches" /\ groups_left = {}
    /\ arbitrage_candidates = <<>> /\ sandwich_candidates = <<>>
    /\ events' = <<>>
    /\ pc' = "returned"
    /\ UNCHANGED <<parser_vars, price_map, transactions, oracle, arbitrage_candidates,
                   sandwich_candidates, groups_left, first_events, call_no>>
    /\ UNCHANGED io_vars

\* the batched price fetch into price_map
FetchPrices ==
    /\ pc = "identify_sandwiches" /\ groups_left = {}
    /\ ~(arbitrage_candidates = <<>> /\ sandwich_candidates = <<>>)
    /\ price_map' = BatchGetPrices(
                      UniqueMints(transactions, arbitrage_candidates, sandwich_candidates),
                      oracle)
    /\ price_fetches' = Append(price_fetches,
                              UniqueMints(transactions, arbitrage_candidates,
                                          sandwich_candidates))
    /\ events' = <<>>
    /\ pc' = "finalize_arbitrages"
    /\ UNCHANGED <<parser_vars, transactions, oracle, arbitrage_candidates,
                   sandwich_candidates, groups_left, first_events, call_no,
                   worker_results, net_vars>>

\* the profitable arbitrages are pushed, in candidate order
FinalizeArbitrages ==
    /\ pc = "finalize_arbitrages"
    /\ events' \in ArbitrageEventLists(transactions, arbitrage_candidates, price_map)
    /\ pc' = "finalize_sandwiches"
    /\ UNCHANGED <<parser_vars, price_map, transactions, oracle, arbitrage_candidates,
                   sandwich_candidates, groups_left, first_events, call_no>>
    /\ UNCHANGED io_vars

\* the profitable sandwiches are pushed, in candidate order; detect_mev returns
FinalizeSandwiches ==
    /\ pc = "finalize_sandwiches"
    /\ \E pushed \in SandwichEventLists(transactions, sandwich_candidates, price_map) :
         events' = events \o pushed
    /\ pc' = "returned"
    /\ UNCHANGED <<parser_vars, price_map, transactions, oracle, arbitrage_candidates,
                   sandwich_candidates, groups_left, first_events, call_no>>
    /\ UNCHANGED io_vars

Next ==
    \/ FindArbitrageCandidates
    \/ SandwichGroup
    \/ EarlyExit
    \/ FetchPrices
    \/ FinalizeArbitrages
    \/ FinalizeSandwiches

Spec == InitMev /\ [][Next]_vars

(***************************************************************************)
(* Specification SpecTwice: detect_mev called twice on the same block,     *)
(* the price service answering the same both times.                        *)
(***************************************************************************)
\* the caller keeps the first result and calls detect_mev again
SecondCall ==
    /\ pc = "returned" /\ call_no = 1
    /\ first_events' = events
    /\ call_no' = 2
    /\ arbitrage_candidates' = <<>> /\ sandwich_candidates' = <<>>
    /\ groups_left' = {} /\ events' = <<>> /\ price_map' = <<>>
    /\ price_fetches' = <<>>
    /\ pc' = "detect_mev"
    /\ UNCHANGED <<parser_vars, transactions, oracle, worker_results, net_vars>>

NextTwice == Next \/ SecondCall

SpecTwice == InitMev /\ [][NextTwice]_vars

(***************************************************************************)
(* Specification SpecArbitrageTypes: classify_arbitrage on any swap list   *)
(* and price map, and detect_mev on blocks of multi-swap transactions of   *)
(* one signer.                                                             *)
(***************************************************************************)
\* two sells in a row: neither a cycle nor a stable pair, yet SOL is gained
TwoSellsLegs == SellLegs \o SellLegs

ArbitrageShapes == {BuyLegs, RoundTripLegs, TwoSellsLegs}

InitArbitrage ==
    /\ InitCall
    /\ \E plan \in SeqsUpTo({<<"S1", legs, FALSE>> : legs \in ArbitrageShapes}, MaxTxs) :
         transactions = BlockOf(plan)
    /\ oracle \in OracleAnswers

InitArbitrageTypes == InitClassify \/ InitArbitrage

NextArbitrageTypes == NextClassify \/ Next

SpecArbitrageTypes == InitArbitrageTypes /\ [][NextArbitrageTypes]_vars

(***************************************************************************)
(* Specification SpecArbitrage: detect_mev on blocks of one signer's       *)
(* multi-swap transactions, TOKA having 8 decimals or 1, with and without  *)
(* a price.                                                                *)
(***************************************************************************)
MaxBlockTxs == 3

\* one signer's transactions: a buy, the profitable round trip (also failed),
\* a round trip that ends with less SOL, round trips that keep 10 or 11 raw
\* units of TOKA, and one that sells 11 more than it bought
ArbitrageKinds ==
    LET LosingRoundTripLegs == << Leg(SOL, 5, TOKA, 4), Leg(TOKA, 4, SOL, 2) >>
        KeepTenLegs == << Leg(SOL, 2, TOKA, 12), Leg(TOKA, 2, SOL, 5) >>
        KeepElevenLegs == << Leg(SOL, 2, TOKA, 12), Leg(TOKA, 1, SOL, 5) >>
        SellElevenMoreLegs == << Leg(SOL, 2, TOKA, 4), Leg(TOKA, 15, SOL, 5) >>
    IN {<<"S1", legs, FALSE>> :
            legs \in {BuyLegs, RoundTripLegs, LosingRoundTripLegs, KeepTenLegs,
                      KeepElevenLegs, SellElevenMoreLegs}}
       \cup {<<"S1", RoundTripLegs, TRUE>>}

\* the token balance rows with the wrapped-SOL accounts holding `quote`
\* instead and TOKA having toka_decimals
Relabel(rows, quote, toka_decimals) ==
    [i \in DOMAIN rows |->
        IF rows[i].mint = SOL
        THEN [rows[i] EXCEPT !.mint = quote, !.decimals = IF quote = SOL THEN 9 ELSE 6]
        ELSE [rows[i] EXCEPT !.decimals = toka_decimals]]

\* the block of the planned transactions trading TOKA against `quote`
QuoteBlockOf(plan, quote, toka_decimals) ==
    [i \in 1..Len(plan) |->
        LET t == TradeTx(i - 1, plan[i][1], plan[i][2], plan[i][3])
        IN [t EXCEPT !.pre_token_balances = Relabel(@, quote, toka_decimals),
                     !.post_token_balances = Relabel(@, quote, toka_decimals)]]

\* <<TOKA decimals, answers of the price service in cents>>
ArbitrageSettings ==
    { <<8, (SOL :> 15000)>>, <<8, <<>> >>,
      <<1, (SOL :> 15000)>>, <<1, (SOL :> 15000) @@ (TOKA :> 1)>> }

InitArbitrageKinds ==
    /\ InitCall
    /\ \E plan \in SeqsUpTo(ArbitrageKinds, MaxBlockTxs), setting \in ArbitrageSettings :
         /\ transactions = QuoteBlockOf(plan, SOL, setting[1])
         /\ oracle = setting[2]

SpecArbitrage == InitArbitrageKinds /\ [][Next]_vars

(***************************************************************************)
(* Specification SpecQuote: detect_mev on blocks of two signers trading    *)
(* TOKA against SOL or against USDC, the price service knowing or not the  *)
(* price of SOL and of USDC.                                               *)
(***************************************************************************)
QuoteKinds ==
    {<<"S1", BuyLegs, FALSE>>, <<"S2", BuyLegs, FALSE>>, <<"S1", SellLegs, FALSE>>,
     <<"S1", RoundTripLegs, FALSE>>}

\* the answers of the price service, in cents
QuoteAnswers ==
    { <<>>, (SOL :> 15000), (USDC :> 100), (SOL :> 15000) @@ (USDC :> 100) }

InitQuote ==
    /\ InitCall
    /\ \E plan \in SeqsUpTo(QuoteKinds, MaxBlockTxs), quote \in {SOL, USDC} :
         transactions = QuoteBlockOf(plan, quote, MintDecimals(TOKA))
    /\ oracle \in QuoteAnswers

SpecQuote == InitQuote /\ [][Next]_vars

(***************************************************************************)
(* Specification SpecParallel: detect_mev with the two rayon stages run by *)
(* one worker per item, the workers finishing in any order.                *)
(***************************************************************************)
\* faulty variant: the outputs in the order the workers finished
CollectInCompletionOrder(results) ==
    LET F[n \in 0..Len(results)] == IF n = 0 THEN <<>> ELSE F[n - 1] \o results[n].out
    IN F[Len(results)]

\* `.collect()` of a rayon iterator into a Vec: the outputs in the order of
\* the items they were computed from
CollectInInputOrder(results) ==
    LET OutOf(p) == (CHOOSE r \in Range(results) : r.index = p).out
        F[p \in 0..Len(results)] == IF p = 0 THEN <<>> ELSE F[p - 1] \o OutOf(p)
    IN F[Len(results)]

\* the items no worker has finished yet
Unfinished(n) == (1..n) \ {worker_results[i].index : i \in 1..Len(worker_results)}

\* a worker runs the filter and filter_map closures on one transaction
CandidateWorker ==
    /\ pc = "detect_mev"
    /\ \E p \in Unfinished(Len(transactions)) :
         worker_results' = Append(worker_results,
                                  [index |-> p, out |-> ArbitrageCandidate(transactions, p)])
    /\ UNCHANGED <<pc, parser_vars, price_map, mev_vars, price_fetches, net_vars>>

\* all workers are done: collect(), then the sandwich groups are formed
CollectCandidates ==
    /\ pc = "detect_mev"
    /\ Unfinished(Len(transactions)) = {}
    /\ arbitrage_candidates' = CollectInInputOrder(worker_results)
    /\ worker_results' = <<>>
    /\ sandwich_candidates' = <<>>
    /\ groups_left' = IF Len(transactions) >= 3 THEN SignerGroups(transactions) ELSE {}
    /\ pc' = "identify_sandwiches"
    /\ UNCHANGED <<parser_vars, price_map, transactions, oracle, events, first_events,
                   call_no, price_fetches, net_vars>>

\* a worker runs detect_arbitrage_with_prices and the profit filter on one
\* candidate
EventWorker ==
    /\ pc = "finalize_arbitrages"
    /\ \E k \in Unfinished(Len(arbitrage_candidates)) :
         \E e \in ArbitrageOutcomes(transactions, arbitrage_candidates[k], price_map) :
            worker_results' = Append(worker_results,
                                     [index |-> k,
                                      out |-> IF e = NoEvent THEN <<>> ELSE <<e>>])
    /\ UNCHANGED <<pc, parser_vars, price_map, mev_vars, price_fetches, net_vars>>

\* all workers are done: collect(), and the arbitrages are pushed
CollectEvents ==
    /\ pc = "finalize_arbitrages"
    /\ Unfinished(Len(arbitrage_candidates)) = {}
    /\ events' = CollectInInputOrder(worker_results)
    /\ pc' = "finalize_sandwiches"
    /\ UNCHANGED <<parser_vars, price_map, transactions, oracle, arbitrage_candidates,
                   sandwich_candidates, groups_left, first_events, call_no, io_vars>>

NextParallel ==
    \/ CandidateWorker
    \/ CollectCandidates
    \/ SandwichGroup
    \/ EarlyExit
    \/ FetchPrices
    \/ EventWorker
    \/ CollectEvents
    \/ FinalizeSandwiches

SpecParallel == InitQuote /\ [][NextParallel]_vars

(***************************************************************************)
(* The block fetcher (fetcher.rs).  fetch_block is a loop of               *)
(* fetch_block_once calls; pc is "fetch_block" at the top of the loop,     *)
(* "backoff" during the sleep and "fetched" when the call has returned.    *)
(***************************************************************************)
\* bounds: the largest configured max_retries, the largest slot asked for and
\* the highest tip the chain reaches
MaxConfiguredRetries == 3
MaxSlot == 2
MaxTip == 22

\* retry_delay_ms: none, the value set by the binary, the default
RetryDelays == {0, 500, 1000}

\* faulty variant: a delay growing linearly with the failures
LinearDelay(retry_delay_ms, retries) == retry_delay_ms * retries

\* `self.config.retry_delay_ms * (2_u64.pow(retries - 1))`
BackoffDelay(retry_delay_ms, retries) == retry_delay_ms * Pow(2, retries - 1)

\* get_block of the RPC node has a block for a slot at or below the tip that
\* was not skipped
Produced(slot) == slot <= rpc.tip /\ slot \notin rpc.skipped

\* what one fetch_block_once call can return: the block or a transport error
\* for a produced slot; for a skipped or future slot the node's "skipped" /
\* "not available" error, mapped to BlockNotAvailable, or a transport error
FetchOnceOutcomes(slot) ==
    IF Produced(slot) THEN {"Ok", "RpcError"} ELSE {"BlockNotAvailable", "RpcError"}

\* the state of a fetch_block(slot) call at its first statement
StartFetch(slot) ==
    [fetcher EXCEPT !.slot = slot, !.retries = 0, !.attempts = 0, !.delays = <<>>,
                    !.last_error = "None", !.result = "None"]

\* the detection pipeline is not running
CoreIdle ==
    /\ ParserIdle /\ ClassifierIdle /\ MevIdle
    /\ price_map = <<>> /\ price_fetches = <<>> /\ worker_results = <<>>
    /\ SharedIdle

core_vars == <<parser_vars, price_map, mev_vars, price_fetches, worker_results,
               shared_vars>>

\* one iteration of the loop of fetch_block, up to its return or its sleep
FetchAttempt ==
    /\ pc = "fetch_block"
    /\ \E outcome \in FetchOnceOutcomes(fetcher.slot) :
         LET retries == fetcher.retries + 1 IN
         IF outcome = "Ok"
         THEN /\ fetcher' = [fetcher EXCEPT !.attempts = @ + 1, !.result = "Ok"]
              /\ pc' = "fetched"
         ELSE IF retries > fetcher.max_retries
         THEN /\ fetcher' = [fetcher EXCEPT !.attempts = @ + 1, !.retries = retries,
                                            !.last_error = outcome,
                                            !.result = "MaxRetriesExceeded"]
              /\ pc' = "fetched"
         ELSE /\ fetcher' = [fetcher EXCEPT
                                !.attempts = @ + 1, !.retries = retries,
                                !.last_error = outcome,
                                !.delays = Append(@, BackoffDelay(fetcher.retry_delay_ms,
                                                                  retries))]
              /\ pc' = "backoff"
    /\ UNCHANGED <<core_vars, stream, runner, rpc>>

\* the sleep of the backoff is over
BackoffDone ==
    /\ pc = "backoff"
    /\ pc' = "fetch_block"
    /\ UNCHANGED <<core_vars, net_vars>>

\* the chain grows by one slot
ChainAdvances ==
    /\ rpc.tip < MaxTip
    /\ rpc' = [rpc EXCEPT !.tip = @ + 1]
    /\ UNCHANGED <<pc, core_vars, fetcher, stream, runner>>

(***************************************************************************)
(* Specification SpecFetch / FairSpecFetch: one fetch_block call, for any  *)
(* configuration, slot and chain.                                          *)
(***************************************************************************)
InitFetch ==
    /\ pc = "fetch_block"
    /\ \E m \in 0..MaxConfiguredRetries, d \in RetryDelays, slot \in 0..MaxSlot :
         fetcher = [NoFetcher EXCEPT !.max_retries = m, !.retry_delay_ms = d, !.slot = slot]
    /\ \E t \in 0..1, s \in SUBSET {1} : rpc = [tip |-> t, skipped |-> s]
    /\ stream = NoStream /\ runner = NoRunner
    /\ CoreIdle

NextFetch == FetchAttempt \/ BackoffDone \/ ChainAdvances

SpecFetch == InitFetch /\ [][NextFetch]_vars

\* the task running fetch_block is polled until it returns: the RPC call has
\* a timeout and the sleep ends
FairSpecFetch == SpecFetch /\ WF_vars(FetchAttempt) /\ WF_vars(BackoffDone)

(***************************************************************************)
(* Specification SpecStream: the task of BlockStream::follow_tip           *)
(* (stream.rs), with the fetcher configured as the binary does.            *)
(***************************************************************************)
\* FetcherConfig of the binary
MAIN_MAX_RETRIES == 3
MAIN_RETRY_DELAY_MS == 500
\* `if lag > 20`, `latest_slot.saturating_sub(5)`, `consecutive_unavailable >= 3`
LAG_LIMIT == 20
CATCH_UP_MARGIN == 5
SKIP_AFTER == 3
\* bound: the items sent into the channel
MaxSent == 2

MainFetcher ==
    [NoFetcher EXCEPT !.max_retries = MAIN_MAX_RETRIES, !.retry_delay_ms = MAIN_RETRY_DELAY_MS]

\* a.saturating_sub(b)
SaturatingSub(a, b) == IF a > b THEN a - b ELSE 0

InitStream ==
    /\ pc = "follow_tip"
    /\ fetcher = MainFetcher
    /\ \E t \in 0..1, s \in SUBSET {1, 2} : rpc = [tip |-> t, skipped |-> s]
    /\ stream = NoStream /\ runner = NoRunner
    /\ CoreIdle

\* the task starts: get_current_slot gives the first slot, or fails and the
\* task returns
StreamStart ==
    /\ pc = "follow_tip"
    /\ \E ok \in BOOLEAN :
         IF ok
         THEN /\ stream' = [stream EXCEPT !.running = TRUE, !.current_slot = rpc.tip]
              /\ pc' = "stream_loop"
         ELSE /\ stream' = stream
              /\ pc' = "stream_ended"
    /\ UNCHANGED <<core_vars, fetcher, runner, rpc>>

\* the top of the loop up to the fetch_block call: when 2 seconds have passed
\* and get_current_slot answers, a lag above 20 slots moves current_slot to
\* 5 below the tip
StreamIterate ==
    /\ pc = "stream_loop"
    /\ Len(stream.sent) < MaxSent
    /\ \E checked \in BOOLEAN :
         LET lag == SaturatingSub(rpc.tip, stream.current_slot)
             jump == checked /\ lag > LAG_LIMIT
             slot == IF jump THEN SaturatingSub(rpc.tip, CATCH_UP_MARGIN)
                     ELSE stream.current_slot
         IN /\ stream' = [stream EXCEPT
                            !.current_slot = slot,
                            !.consecutive_unavailable = IF jump THEN 0 ELSE @]
            /\ fetcher' = StartFetch(slot)
    /\ pc' = "fetch_block"
    /\ UNCHANGED <<core_vars, runner, rpc>>

\* the match on the result of fetch_block; a send into a channel whose
\* receiver is gone ends the task
StreamMatch ==
    /\ pc = "fetched" /\ stream.running
    /\ \E receiver_open \in BOOLEAN :
         LET item == [slot |-> stream.current_slot, result |-> fetcher.result,
                      cause |-> IF fetcher.result = "Ok" THEN "None"
                                ELSE fetcher.last_error]
             unavailable == stream.consecutive_unavailable + 1
             delivered == [stream EXCEPT !.sent = Append(@, item),
                                         !.current_slot = @ + 1,
                                         !.consecutive_unavailable = 0]
         IN CASE fetcher.result = "BlockNotAvailable" ->
                   /\ stream' =
                        IF unavailable # 1 /\ unavailable >= SKIP_AFTER
                        THEN [stream EXCEPT !.current_slot = @ + 1,
                                            !.consecutive_unavailable = 0]
                        ELSE [stream EXCEPT !.consecutive_unavailable = unavailable]
                   /\ pc' = "stream_loop"
              [] OTHER ->
                   IF receiver_open
                   THEN stream' = delivered /\ pc' = "stream_loop"
                   ELSE stream' = stream /\ pc' = "stream_ended"
    /\ UNCHANGED <<core_vars, fetcher, runner, rpc>>

NextStream ==
    \/ StreamStart
    \/ StreamIterate
    \/ FetchAttempt
    \/ BackoffDone
    \/ StreamMatch
    \/ ChainAdvances

SpecStream == InitStream /\ [][NextStream]_vars

(***************************************************************************)
(* Specification SpecRun: the `run` command of the binary (pono.rs), in    *)
(* its detailed and summary modes, over a slot specification.              *)
(***************************************************************************)
RunModes == {"detailed", "summary"}

\* the JSON value analyze_slot_mev / analyze_slot_summary returns for a
\* fetched block, reduced to the slot it is about and the mode that made it
Document(slot, mode) == [slot |-> slot, mode |-> mode]

\* a variant of AfterError that leaves the loop at the first error
AbortOnError(r) ==
    [r EXCEPT !.logged = Append(@, r.slot), !.slot = r.end + 1]

\* the Err arm of the range loop: eprintln! and on to the next slot
AfterError(r) ==
    [r EXCEPT !.logged = Append(@, r.slot), !.slot = @ + 1]

\* the Ok arm of the range loop: results.push(output)
AfterOk(r) ==
    [r EXCEPT !.results = Append(@, Document(r.slot, r.mode)), !.slot = @ + 1]

InitRun ==
    /\ pc = "run"
    /\ fetcher = MainFetcher
    /\ \E t \in 0..1, s \in SUBSET {1} : rpc = [tip |-> t, skipped |-> s]
    /\ stream = NoStream /\ runner = NoRunner
    /\ CoreIdle

\* parse_slot_spec: "a-b" with a > b is rejected, "a" is the range a..a
RunnerStart ==
    /\ pc = "run"
    /\ \E mode \in RunModes, start \in 0..MaxSlot, end \in 0..MaxSlot :
         /\ runner' = [NoRunner EXCEPT !.mode = mode, !.start = start,
                                       !.end = end, !.slot = start]
         /\ pc' = IF start > end THEN "run_failed" ELSE "run_loop"
    /\ UNCHANGED <<core_vars, fetcher, stream, rpc>>

\* analyze_slot_*(slot) begins with fetch_block(slot)
RunnerCall ==
    /\ pc = "run_loop" /\ runner.slot <= runner.end
    /\ fetcher' = StartFetch(runner.slot)
    /\ pc' = "fetch_block"
    /\ UNCHANGED <<core_vars, stream, runner, rpc>>

\* the result of analyze_slot_*: with start = end it is unwrapped by `?` and
\* printed; in a range it goes through the match of the loop
RunnerMatch ==
    /\ pc = "fetched" /\ runner.mode # "None"
    /\ IF runner.start = runner.end
       THEN IF fetcher.result = "Ok"
            THEN /\ runner' = [runner EXCEPT
                                 !.output = <<Document(runner.slot, runner.mode)>>]
                 /\ pc' = "run_done"
            ELSE /\ runner' = runner
                 /\ pc' = "run_failed"
       ELSE /\ runner' = IF fetcher.result = "Ok" THEN AfterOk(runner)
                         ELSE AfterError(runner)
            /\ pc' = "run_loop"
    /\ UNCHANGED <<core_vars, fetcher, stream, rpc>>

\* after the loop: println! of the results array
RunnerPrint ==
    /\ pc = "run_loop" /\ runner.slot > runner.end
    /\ runner' = [runner EXCEPT !.output = runner.results]
    /\ pc' = "run_done"
    /\ UNCHANGED <<core_vars, fetcher, stream, rpc>>

NextRun ==
    \/ RunnerStart
    \/ RunnerCall
    \/ FetchAttempt
    \/ BackoffDone
    \/ RunnerMatch
    \/ RunnerPrint
    \/ ChainAdvances

SpecRun == InitRun /\ [][NextRun]_vars

(***************************************************************************)
(* Specification SpecSwapOrder: detect_mev on a block whose first          *)
(* transaction has one or two inner-instruction sets of signer transfers   *)
(* in any order.                                                           *)
(***************************************************************************)
\* bound: the instructions of the first inner set
MaxSetInsts == 4

\* S1 sends SOL or TOKA to the pool, or receives them; each kind carries
\* its own amount
OrderInstructions ==
    {TokenTransfer(WsolAccount("S1"), PoolAccount(SOL), 1),
     TokenTransfer(TokaAccount("S1"), PoolAccount(TOKA), 2),
     TokenTransfer(PoolAccount(SOL), WsolAccount("S1"), 3),
     TokenTransfer(PoolAccount(TOKA), TokaAccount("S1"), 4)}

\* the transaction at block index 0 with the given inner sets (each a pair
\* <<index of the outer instruction, instructions>>), and token balances
\* that agree with the transfers
OrderTx(sets) ==
    LET all == IF Len(sets) = 0 THEN <<>>
               ELSE IF Len(sets) = 1 THEN sets[1][2]
               ELSE sets[1][2] \o sets[2][2]
        ks == DOMAIN all
        Net(account) ==
            SumOver(ks, [k \in ks |->
                (IF all[k].parsed.destination = account THEN all[k].parsed.amount ELSE 0)
                - (IF all[k].parsed.source = account THEN all[k].parsed.amount ELSE 0)])
    IN [TradeTx(0, "S1", <<>>, FALSE) EXCEPT
          !.instructions = <<CompiledInst(5), PartiallyDecoded(DEX_B)>>,
          !.inner_instructions =
              [k \in 1..Len(sets) |-> [index |-> sets[k][1], instructions |-> sets[k][2]]],
          !.post_token_balances =
              << BalanceRow(1, SOL, "S1", 20 + Net(WsolAccount("S1")), MintDecimals(SOL)),
                 BalanceRow(2, TOKA, "S1", 20 + Net(TokaAccount("S1")), MintDecimals(TOKA)),
                 BalanceRow(3, SOL, POOL, 100 + Net(PoolAccount(SOL)), MintDecimals(SOL)),
                 BalanceRow(4, TOKA, POOL, 100 + Net(PoolAccount(TOKA)),
                            MintDecimals(TOKA)) >>]

\* the inner sets of the first transaction: none, one, or two whose outer
\* indices come in either order
OrderSets ==
    LET first == SeqsUpTo(OrderInstructions, MaxSetInsts) \ {<<>>}
        second == {<<a, b>> : a, b \in OrderInstructions} \ {<<a, a>> : a \in OrderInstructions}
    IN {<<>>}
       \cup {<< <<0, a>> >> : a \in first}
       \cup {<< <<i, a>>, <<1 - i, b>> >> : i \in {0, 1}, a \in first, b \in second}

InitSwapOrder ==
    /\ InitCall
    /\ \E sets \in OrderSets :
         transactions = <<OrderTx(sets), TradeTx(1, "S2", BuyLegs, FALSE),
                          TradeTx(2, "S2", BuyLegs, FALSE)>>
    /\ oracle = (SOL :> 15000)

SpecSwapOrder == InitSwapOrder /\ [][Next]_vars

(***************************************************************************)
(* Specification SpecDex: extract_swaps on a transaction whose inner set   *)
(* mixes the signer's transfers with instructions of other programs in     *)
(* each of the three encodings.                                            *)
(***************************************************************************)
\* bound: the instructions of the inner set
MaxDexInsts == 4

MEMO_PROGRAM == "MemoSq4gqABAXKb96qnH8TysNcWxMyWCqXgDLGmfcHr"

\* a fully parsed instruction carries the id of its program beside the name
ParsedBy(inst, pid) == [inst EXCEPT !.program_id = pid]

DexInstructions ==
    {ParsedBy(TokenTransfer("a1", "p1", 1), TOKEN_PROGRAM),
     ParsedBy(TokenTransfer("p2", "a2", 2), TOKEN_PROGRAM),
     ParsedBy(ParsedOther("spl-memo", "memo"), MEMO_PROGRAM),
     ParsedBy(ParsedOther("spl-associated-token-account", "create"), ATOKEN_PROGRAM),
     PartiallyDecoded(MEMO_PROGRAM), PartiallyDecoded(COMPUTE_BUDGET_PROGRAM),
     CompiledInst(6), CompiledInst(7), CompiledInst(9)}

InitDex ==
    /\ pc = "extract_swaps"
    /\ tx \in {ParserTx(insts) : insts \in SeqsUpTo(DexInstructions, MaxDexInsts)}
    /\ swaps = <<>> /\ token_changes = <<>>
    /\ price_map = <<>>
    /\ ClassifierIdle /\ MevIdle
    /\ IoIdle

SpecDex == InitDex /\ [][NextParser]_vars

(***************************************************************************)
(* Specification SpecOracle: calls of batch_get_prices and get_price_usd   *)
(* on one OracleClient (oracle.rs).  Each mint of a fetch is one request   *)
(* to the price service; a request for a mint with a feed may fail.        *)
(***************************************************************************)
\* bounds: the mints of one batch, and the calls on the instance
MaxBatch == 2
MaxOracleCalls == 3

base_vars == <<parser_vars, price_map, mev_vars, price_fetches, worker_results,
               fetcher, stream, runner, rpc>>

OracleMints == {SOL, USDC, TOKA}

\* the close price the service holds for the mints of PYTH_FEEDS, in cents
FeedPrices == (SOL :> 15000) @@ (USDC :> 100)

\* what one request of fetch_benchmarks_prices can give for a mint: 0.0
\* without a symbol, on an HTTP or parse error, or without data
RequestOutcomes(mint) ==
    IF mint \in DOMAIN FeedPrices THEN {0, FeedPrices[mint]} ELSE {0}

\* faulty variant: a cached 0.0 counts as missing
UncachedOrZero(mints, price_cache) ==
    LET Missing(m) == m \notin DOMAIN price_cache \/ price_cache[m] = 0
    IN SelectSeq(mints, Missing)

\* the mints of the batch without a cache entry, in the order given
Uncached(mints, price_cache) ==
    LET Missing(m) == m \notin DOMAIN price_cache
    IN SelectSeq(mints, Missing)

\* price_cache.insert for each fetched pair, in order
RECURSIVE InsertAll(_, _, _)
InsertAll(price_cache, pairs, k) ==
    IF k > Len(pairs) THEN price_cache
    ELSE InsertAll((pairs[k][1] :> pairs[k][2]) @@ price_cache, pairs, k + 1)

InitOracle ==
    /\ pc = "oracle"
    /\ oracle_client = NoOracleClient /\ limiter = NoLimiter /\ tip_result = NoNum
    /\ ParserIdle /\ ClassifierIdle /\ MevIdle
    /\ price_map = <<>> /\ price_fetches = <<>> /\ worker_results = <<>>
    /\ fetcher = NoFetcher /\ stream = NoStream /\ runner = NoRunner /\ rpc = NoRpc

\* batch_get_prices(mints)
BatchGetPricesCall ==
    /\ pc = "oracle" /\ oracle_client.calls < MaxOracleCalls
    /\ \E mints \in SeqsUpTo(OracleMints, MaxBatch) :
         LET cache == oracle_client.price_cache
             InCache(m) == m \in DOMAIN cache
             hits == SelectSeq(mints, InCache)
             cached == [k \in 1..Len(hits) |-> <<hits[k], cache[hits[k]]>>]
             uncached_mints == Uncached(mints, cache)
         IN IF mints = <<>> \/ uncached_mints = <<>>
            THEN oracle_client' = [oracle_client EXCEPT !.results = cached,
                                                        !.calls = @ + 1]
            ELSE \E prices \in [1..Len(uncached_mints) -> {0, 100, 15000}] :
                   /\ \A k \in 1..Len(uncached_mints) :
                        prices[k] \in RequestOutcomes(uncached_mints[k])
                   /\ LET fetched == [k \in 1..Len(uncached_mints) |->
                                        <<uncached_mints[k], prices[k]>>]
                      IN oracle_client' =
                           [price_cache |-> InsertAll(cache, fetched, 1),
                            fetched |-> Append(oracle_client.fetched, uncached_mints),
                            results |-> cached \o fetched,
                            calls |-> oracle_client.calls + 1]
    /\ UNCHANGED <<pc, base_vars, limiter, tip_result>>

\* get_price_usd(mint)
GetPriceUsdCall ==
    /\ pc = "oracle" /\ oracle_client.calls < MaxOracleCalls
    /\ \E mint \in OracleMints :
         LET cache == oracle_client.price_cache
         IN IF mint \in DOMAIN cache
            THEN oracle_client' = [oracle_client EXCEPT
                                     !.results = << <<mint, cache[mint]>> >>,
                                     !.calls = @ + 1]
            ELSE \E price \in RequestOutcomes(mint) :
                   oracle_client' =
                     [price_cache |-> (mint :> price) @@ cache,
                      fetched |-> Append(oracle_client.fetched, <<mint>>),
                      results |-> << <<mint, price>> >>,
                      calls |-> oracle_client.calls + 1]
    /\ UNCHANGED <<pc, base_vars, limiter, tip_result>>

NextOracle == BatchGetPricesCall \/ GetPriceUsdCall

SpecOracle == InitOracle /\ [][NextOracle]_vars

(***************************************************************************)
(* Specification SpecTip: jito_tip on one transaction.                     *)
(***************************************************************************)
\* bound: the account keys of the transaction
MaxKeys == 3

TipKeys ==
    {"96gYZGLnJYVFmbjzopPSU6QiEV5fGqZNyN9nmNhvrZU5",
     "3AVi9Tg9Uo68tJfuvoKvqKNWKkC5wPdSSdeBnizKZ6jT", "a1"}

\* the signer first, then tip recipients and other accounts; lamport
\* balances before and after, possibly one entry short
TipTxs ==
    {[BlankTx("S1") EXCEPT !.account_keys = <<"S1">> \o rest,
                          !.pre_balances = pre, !.post_balances = post,
                          !.has_meta = meta, !.encoding = enc] :
        rest \in [1..(MaxKeys - 1) -> TipKeys],
        pre \in [1..(MaxKeys - 1) -> {0, 1}] \cup [1..MaxKeys -> {0, 1}],
        post \in [1..(MaxKeys - 1) -> {0, 1, 3}] \cup [1..MaxKeys -> {0, 1, 3}],
        meta \in BOOLEAN, enc \in {"Parsed", "Binary"}}

InitTip ==
    /\ pc = "jito_tip"
    /\ tx \in TipTxs
    /\ swaps = <<>> /\ token_changes = <<>>
    /\ price_map = <<>>
    /\ ClassifierIdle /\ MevIdle
    /\ IoIdle

\* FetchedTransaction::jito_tip(&tx)
JitoTipCall ==
    /\ pc = "jito_tip"
    /\ tip_result' = jito_tip(tx)
    /\ pc' = "tip_returned"
    /\ UNCHANGED <<base_vars, oracle_client, limiter>>

SpecTip == InitTip /\ [][JitoTipCall]_vars

(***************************************************************************)
(* Properties.                                                             *)
(***************************************************************************)
\* C1: every sandwich event returned by detect_mev has front_run.index <
\* back_run.index, both transactions successful and signed by the attacker, and
\* a successful transaction of another signer strictly between them; a pair
\* with only failed or own transactions in between yields no event.
SandwichHasSuccessfulVictim ==
    \A k \in 1..Len(events) :
        events[k].type = "Sandwich" =>
            LET e == events[k]
                front == e.front_run.index + 1
                back == e.back_run.index + 1
            IN /\ front \in 1..Len(transactions) /\ back \in 1..Len(transactions)
               /\ e.front_run.index < e.back_run.index
               /\ is_success(transactions[front]) /\ is_success(transactions[back])
               /\ signer(transactions[front]) = e.signer
               /\ signer(transactions[back]) = e.signer
               /\ \E v \in 1..Len(transactions) :
                    /\ transactions[v].index > e.front_run.index
                    /\ transactions[v].index < e.back_run.index
                    /\ is_success(transactions[v])
                    /\ signer(transactions[v]) # e.signer

\* a sandwich was returned although a failed transaction lies inside it
SandwichAroundFailedTx ==
    /\ pc = "returned"
    /\ \E k \in 1..Len(events) :
         /\ events[k].type = "Sandwich"
         /\ \E v \in 1..Len(transactions) :
              /\ transactions[v].index > events[k].front_run.index
              /\ transactions[v].index < events[k].back_run.index
              /\ ~is_success(transactions[v])

\* C2: in every sandwich candidate and every sandwich event the front-run and
\* the back-run have exactly one swap each, over the same unordered token pair
\* and in different directions, so the back-run swap is the front-run swap
\* reversed.
SandwichSwapsOpposed ==
    LET Opposed(front_swaps, back_swaps) ==
            /\ Len(front_swaps) = 1 /\ Len(back_swaps) = 1
            /\ {front_swaps[1].token0, front_swaps[1].token1}
                 = {back_swaps[1].token0, back_swaps[1].token1}
            /\ <<front_swaps[1].token0, front_swaps[1].token1>>
                 # <<back_swaps[1].token0, back_swaps[1].token1>>
            /\ back_swaps[1].token0 = front_swaps[1].token1
            /\ back_swaps[1].token1 = front_swaps[1].token0
    IN /\ \A k \in 1..Len(sandwich_candidates) :
            Opposed(sandwich_candidates[k].front_run_swaps,
                    sandwich_candidates[k].back_run_swaps)
       /\ \A k \in 1..Len(events) :
            events[k].type = "Sandwich" =>
                Opposed(events[k].front_run.swap, events[k].back_run.swap)

\* a sell-then-buy sandwich was returned
SellThenBuySandwichReturned ==
    /\ pc = "returned"
    /\ \E k \in 1..Len(events) :
         /\ events[k].type = "Sandwich"
         /\ events[k].front_run.swap[1].token0 = TOKA
         /\ events[k].back_run.swap[1].token0 = SOL

\* C3: every returned event, arbitrage or sandwich, has profit_usd > 0 and
\* profit_usd = revenue_usd - fees_usd.
EventsAreProfitable ==
    \A k \in 1..Len(events) :
        /\ events[k].profitability.profit_usd > 0
        /\ events[k].profitability.profit_usd
             = events[k].profitability.revenue_usd - events[k].profitability.fees_usd

\* an arbitrage and a sandwich were returned together
ArbitrageAndSandwichReturned ==
    /\ pc = "returned"
    /\ \E k \in 1..Len(events) : events[k].type = "Arbitrage"
    /\ \E k \in 1..Len(events) : events[k].type = "Sandwich"

\* C4: classify_arbitrage returns one of the four arbitrage types for every
\* swap list and price map, and no arbitrage event returned by detect_mev has
\* the type LongTail.
ClassifierTotalAndLongTailDropped ==
    /\ pc = "classified" => arbitrage_type \in ArbitrageTypes
    /\ \A k \in 1..Len(events) :
         events[k].type = "Arbitrage" =>
             events[k].arbitrage_type \in ArbitrageTypes \ {"LongTail"}

\* detect_mev returned an arbitrage from a block that also held a candidate
\* classified LongTail
LongTailCandidateDropped ==
    /\ pc = "returned"
    /\ \E k \in 1..Len(arbitrage_candidates) :
         classify_arbitrage(arbitrage_candidates[k].swaps, price_map) = "LongTail"
    /\ \E k \in 1..Len(events) : events[k].type = "Arbitrage"

\* C5: for every swap list and price map classify_arbitrage equals the
\* reference table read top to bottom: length 0 or 1 is LongTail; length 2 is
\* Triangle when first = last and continuous, else Stablecoin for a stable
\* pair, else CrossPair when first = last and not continuous, else LongTail;
\* length 3 or more is Stablecoin for a stable pair, else CrossPair when
\* first = last and not continuous, else Triangle when first = last and
\* continuous, else LongTail.
ClassifierMatchesTable ==
    pc = "classified" =>
        LET n == Len(swaps)
            first == swaps[1].token0
            last == swaps[n].token1
            continuous == \A i \in 1..(n - 1) : swaps[i].token1 = swaps[i + 1].token0
            stable(t) == t \in DOMAIN price_map /\ price_map[t] >= 95 /\ price_map[t] <= 105
            stable_pair == stable(first) /\ stable(last)
            expected ==
                IF n <= 1 THEN "LongTail"
                ELSE IF n = 2 THEN
                    CASE first = last /\ continuous -> "TriangleArbitrage"
                      [] ~(first = last /\ continuous) /\ stable_pair -> "StablecoinArbitrage"
                      [] ~stable_pair /\ first = last /\ ~continuous -> "CrossPairArbitrage"
                      [] OTHER -> "LongTail"
                ELSE
                    CASE stable_pair -> "StablecoinArbitrage"
                      [] ~stable_pair /\ first = last /\ ~continuous -> "CrossPairArbitrage"
                      [] ~stable_pair /\ first = last /\ continuous -> "TriangleArbitrage"
                      [] OTHER -> "LongTail"
        IN arbitrage_type = expected

\* three swaps between tokens priced at the two ends of the band were
\* classified StablecoinArbitrage
StableBandEndsClassified ==
    /\ pc = "classified"
    /\ Len(swaps) = 3
    /\ swaps[1].token0 = USDC /\ swaps[3].token1 = USDT
    /\ USDC \in DOMAIN price_map /\ price_map[USDC] = StableLow
    /\ USDT \in DOMAIN price_map /\ price_map[USDT] = StableHigh
    /\ arbitrage_type = "StablecoinArbitrage"

\* C6 (as stated): a 2-swap list that is continuous, has first = last and
\* whose first/last token is priced in [0.95, 1.05] is classified
\* StablecoinArbitrage, not TriangleArbitrage.
TwoSwapStableCycleIsStablecoin ==
    (/\ pc = "classified"
     /\ Len(swaps) = 2
     /\ swaps[1].token1 = swaps[2].token0
     /\ swaps[1].token0 = swaps[2].token1
     /\ swaps[1].token0 \in DOMAIN price_map
     /\ price_map[swaps[1].token0] >= StableLow
     /\ price_map[swaps[1].token0] <= StableHigh)
    => arbitrage_type = "StablecoinArbitrage"

\* C6 (amended): in the 2-swap branch the first = last cycle check comes
\* first, so a continuous 2-swap list with first = last is TriangleArbitrage
\* whatever the prices; the stable pair wins before the cycle checks only for
\* lists of three or more swaps.
TwoSwapCycleIsTriangle ==
    pc = "classified" =>
        /\ (/\ Len(swaps) = 2
            /\ swaps[1].token1 = swaps[2].token0
            /\ swaps[1].token0 = swaps[2].token1)
           => arbitrage_type = "TriangleArbitrage"
        /\ (/\ Len(swaps) >= 3
            /\ \A t \in {swaps[1].token0, swaps[Len(swaps)].token1} :
                 /\ t \in DOMAIN price_map
                 /\ price_map[t] >= StableLow /\ price_map[t] <= StableHigh)
           => arbitrage_type = "StablecoinArbitrage"

\* a continuous 2-swap cycle on a token priced inside the band was classified
\* TriangleArbitrage
StableTwoSwapCycleClassifiedTriangle ==
    /\ pc = "classified"
    /\ Len(swaps) = 2
    /\ swaps[1].token0 = USDC /\ swaps[1].token1 = SOL
    /\ swaps[2].token0 = SOL /\ swaps[2].token1 = USDC
    /\ USDC \in DOMAIN price_map /\ price_map[USDC] = StableLow
    /\ arbitrage_type = "TriangleArbitrage"

\* C7: every swap returned by extract_swaps has token0 # token1 and both
\* amounts > 0: transfers of amount 0 never become a swap leg.
SwapsHaveTwoMintsAndAmounts ==
    pc = "swaps_returned" =>
        \A k \in 1..Len(swaps) :
            /\ swaps[k].token0 # swaps[k].token1
            /\ swaps[k].amount0 > 0
            /\ swaps[k].amount1 > 0

\* a swap was returned for a transaction that also carries a zero-amount
\* transfer out of the signer's account
SwapBesideZeroTransfer ==
    /\ pc = "swaps_returned"
    /\ Len(swaps) >= 1
    /\ Len(tx.inner_instructions) = 1
    /\ \E i \in 1..Len(tx.inner_instructions[1].instructions) :
         LET inst == tx.inner_instructions[1].instructions[i]
         IN inst.parsed.type = "transfer" /\ inst.parsed.amount = 0
            /\ inst.parsed.source = "a1"

\* C8 (as stated): every TokenChange returned by extract_token_changes has
\* delta = post_amount - pre_amount for all unsigned pre/post amounts, belongs
\* to an account index of both balance tables, takes its owner from the post
\* side and has delta # 0.
TokenChangeDeltaIsDifference ==
    pc = "token_changes_returned" =>
        \A k \in 1..Len(token_changes) :
            LET tc == token_changes[k] IN
            /\ tc.delta = tc.post_amount - tc.pre_amount
            /\ tc.delta # 0
            /\ tc.account_index \in Indices(tx.pre_token_balances)
            /\ tc.account_index \in Indices(tx.post_token_balances)
            /\ tc.owner = StrOrEmpty(LastRow(tx.post_token_balances, tc.account_index).owner)

\* C9 (as stated): two calls of detect_mev on the same block, with the same
\* prices, return the same multiset of events.
SecondCallReturnsSameEvents ==
    (call_no = 2 /\ pc = "returned") =>
        /\ Len(events) = Len(first_events)
        /\ \A e \in Range(events) \cup Range(first_events) :
             Cardinality({i \in 1..Len(events) : events[i] = e})
               = Cardinality({i \in 1..Len(first_events) : first_events[i] = e})

\* C10 (as stated): in the returned list the arbitrage events come first, in
\* the order of their transactions in the input, and the sandwich events
\* follow in increasing front_run.index.
EventsInInputOrder ==
    pc = "returned" =>
        \A i, j \in 1..Len(events) :
            i < j =>
                LET IndexOf(e) ==
                        (CHOOSE p \in 1..Len(transactions) :
                            transactions[p].signature = e.signature) - 1
                IN /\ events[i].type = "Sandwich" => events[j].type = "Sandwich"
                   /\ (events[i].type = "Arbitrage" /\ events[j].type = "Arbitrage")
                        => IndexOf(events[i]) < IndexOf(events[j])
                   /\ (events[i].type = "Sandwich" /\ events[j].type = "Sandwich")
                        => events[i].front_run.index < events[j].front_run.index

\* C20 (as stated): the first outgoing transfer of an inner-instruction set is
\* matched to the nearest incoming transfer with another mint, and when an
\* earlier and a later one are equally near, to the later one.
TieGoesToLaterIncoming ==
    (pc = "swaps_returned" /\ Len(tx.inner_instructions) = 1) =>
        LET inner_set == tx.inner_instructions[1]
            who == StrOrEmpty(signer(tx))
            owner_map == BuildOwnerMap(tx)
            transfers == WalkInstructions(inner_set.instructions, 1, BuildTokenMap(tx),
                                          GetAccountKeys(tx),
                                          KeyAt(GetOuterInstructions(tx), inner_set.index),
                                          <<>>)
            outgoing == OwnedPositions(transfers, owner_map, who, "source", 1)
            incoming == OwnedPositions(transfers, owner_map, who, "destination", 1)
            out_idx == outgoing[1]
            eligible == {p \in Range(incoming) :
                           MintDiffers(transfers[p].transfer, transfers[out_idx].transfer)}
            later == CHOOSE p \in eligible :
                       \A q \in eligible :
                           \/ Abs(p - out_idx) < Abs(q - out_idx)
                           \/ (Abs(p - out_idx) = Abs(q - out_idx) /\ p >= q)
        IN (Len(outgoing) >= 1 /\ eligible # {}) =>
              /\ Len(swaps) >= 1
              /\ swaps[1].token1 = transfers[later].transfer.mint
              /\ swaps[1].amount1 = Normalize(transfers[later].transfer.amount,
                                              transfers[later].transfer.decimals)

\* C12: every ArbitrageEvent returned by detect_mev belongs to a transaction
\* that is successful, has inner instructions or a swap-like log line, parses
\* to at least 2 swaps and has a signer-owned token change with delta > 0.
ArbitrageEventFromQualifyingTx ==
    pc = "returned" =>
        \A k \in 1..Len(events) :
            events[k].type = "Arbitrage" =>
                \E p \in 1..Len(transactions) :
                    LET t == transactions[p] IN
                    /\ t.signature = events[k].signature
                    /\ ~t.err
                    /\ (Len(t.inner_instructions) > 0
                          \/ \E i \in 1..Len(t.log_messages) : t.log_messages[i] \in SwapLikeLogs)
                    /\ Len(ExtractSwaps(t)) >= 2
                    /\ \E tc \in TokenChangeSet(t) : tc.owner = t.account_keys[1] /\ tc.delta > 0

\* a block was inspected that holds a profitable round trip, returned as an
\* event, beside a failed round trip, a losing one and a single buy, none of
\* which is returned
QualifyingTxBesideOthers ==
    /\ pc = "returned"
    /\ Len(transactions) = 3
    /\ \E k \in 1..Len(events) : events[k].type = "Arbitrage"
    /\ \E p \in 1..3 : transactions[p].err /\ Len(ExtractSwaps(transactions[p])) = 2
    /\ \E p \in 1..3 :
         /\ ~transactions[p].err
         /\ (Len(ExtractSwaps(transactions[p])) < 2
              \/ ~HasProfit(TokenChangeSet(transactions[p]), "S1"))
    /\ Len(events) = 1

\* C19: the unsupported_profit_tokens of an ArbitrageEvent are exactly the
\* mints whose signer net position (deltas summed per mint, over 10^decimals)
\* is above 1.0 in absolute value and whose price is missing or 0, each once.
UnsupportedTokensAreUnpricedSignificant ==
    pc = "returned" =>
        \A k \in 1..Len(events) :
            events[k].type = "Arbitrage" =>
                LET t == CHOOSE u \in Range(transactions) : u.signature = events[k].signature
                    mine == {tc \in TokenChangeSet(t) : tc.owner = t.account_keys[1]}
                    Decimals(m) == (CHOOSE tc \in mine : tc.mint = m).decimals
                    unknown == {m \in {tc.mint : tc \in mine} :
                                  /\ Abs(DeltaSum(mine, m)) > Pow(10, Decimals(m))
                                  /\ (m \notin DOMAIN price_map \/ price_map[m] = 0)}
                    listed == events[k].profitability.unsupported_profit_tokens
                IN /\ Range(listed) = unknown
                   /\ Len(listed) = Cardinality(unknown)

\* events were returned for a round trip that keeps 1.1 TOKA (11 raw units at
\* 1 decimal) without a price, which lists TOKA, and for one that keeps
\* exactly 1.0 TOKA, which lists nothing
UnpricedTokenListedAboveOne ==
    /\ pc = "returned"
    /\ TOKA \in DOMAIN price_map /\ price_map[TOKA] = 0
    /\ \E k \in 1..Len(events) :
         /\ events[k].profitability.unsupported_profit_tokens = <<TOKA>>
         /\ \E c \in Range(events[k].token_changes) :
              c.mint = TOKA /\ c.delta = 11 /\ c.decimals = 1
    /\ \E k \in 1..Len(events) :
         /\ events[k].profitability.unsupported_profit_tokens = <<>>
         /\ \E c \in Range(events[k].token_changes) :
              c.mint = TOKA /\ c.delta = 10 /\ c.decimals = 1

\* C18 (as stated): when the price service has no price for wrapped SOL, an
\* arbitrage's fees_usd is (fee + jito_tip) lamports at 130.0 USD per SOL and
\* a sandwich's fees_usd is (total_fees + total_jito_tips) at 127.0.
FeesUseDefaultSolPrice ==
    (pc = "returned" /\ (SOL \notin DOMAIN oracle \/ oracle[SOL] = 0)) =>
        \A k \in 1..Len(events) :
            LET e == events[k] IN
            /\ e.type = "Arbitrage" =>
                 e.profitability.fees_usd = (e.fee + e.jito_tip) * ARB_DEFAULT_SOL_PRICE
            /\ e.type = "Sandwich" =>
                 e.profitability.fees_usd
                   = (e.total_fees + e.total_jito_tips) * SANDWICH_DEFAULT_SOL_PRICE

\* C17 (as stated): the core never panics on malformed per-transaction data;
\* in particular extract_token_changes returns normally for any balance
\* amounts, unparseable or extreme ones included.
ExtractTokenChangesNeverPanics == pc # "panicked"

\* C16 (as stated): every detect_mev call invokes the batched price fetch
\* exactly once.
PricesFetchedExactlyOnce == pc = "returned" => Len(price_fetches) = 1

\* C16 (amended): a detect_mev call invokes the batched price fetch at most
\* once: once when there is an arbitrage or sandwich candidate, as one batch
\* holding wrapped SOL and every mint with a non-zero signer-owned change in a
\* candidate, and not at all when there is no candidate; while the events are
\* finalized and after, the price map is still what that fetch returned.
PricesFetchedOnceForCandidates ==
    LET has_candidates == arbitrage_candidates # <<>> \/ sandwich_candidates # <<>>
        needed ==
            {SOL}
            \cup UNION {OwnedNonZeroMints(arbitrage_candidates[k].token_changes,
                                          signer(transactions[arbitrage_candidates[k].tx])) :
                        k \in 1..Len(arbitrage_candidates)}
            \cup UNION {OwnedNonZeroMints(sandwich_candidates[k].front_run_changes
                                            \cup sandwich_candidates[k].back_run_changes,
                                          sandwich_candidates[k].signer) :
                        k \in 1..Len(sandwich_candidates)}
    IN /\ Len(price_fetches) <= 1
       /\ (pc \in {"finalize_arbitrages", "finalize_sandwiches"}
             \/ (pc = "returned" /\ has_candidates)) =>
              /\ Len(price_fetches) = 1
              /\ price_fetches[1] = needed
              /\ price_map = BatchGetPrices(price_fetches[1], oracle)
       /\ (pc = "returned" /\ ~has_candidates) =>
              (price_fetches = <<>> /\ price_map = <<>>)

\* a call returned events after one fetch of a batch of two mints, for a
\* block with a sandwich candidate
PricesFetchedInOneBatch ==
    /\ pc = "returned"
    /\ Len(price_fetches) = 1
    /\ price_fetches[1] = {SOL, TOKA}
    /\ sandwich_candidates # <<>>
    /\ events # <<>>

\* C11: whatever the order in which the per-transaction workers finish, the
\* arbitrage candidates are those of a left-to-right pass over the
\* transactions, and the arbitrage events are those of a left-to-right pass
\* over the candidates.
ParallelEqualsSequential ==
    /\ pc = "identify_sandwiches" =>
          arbitrage_candidates = CollectArbitrageCandidates(transactions, 1)
    /\ pc = "finalize_sandwiches" =>
          events \in ArbitrageEventLists(transactions, arbitrage_candidates, price_map)

\* two arbitrage events were collected after the worker of the second
\* candidate finished before the worker of the first
WorkersFinishedOutOfOrder ==
    /\ pc = "finalize_sandwiches"
    /\ Len(events) = 2
    /\ events[1].signature # events[2].signature
    /\ Len(worker_results) = 2
    /\ worker_results[1].index = 2 /\ worker_results[2].index = 1

UnavailableSlotNotDelivered ==
    /\ (pc = "fetched" /\ fetcher.result # "Ok" /\ fetcher.last_error = "BlockNotAvailable")
          => fetcher.result = "BlockNotAvailable"
    /\ \A i \in 1..Len(stream.sent) :
          ~(stream.sent[i].result # "Ok" /\ stream.sent[i].cause = "BlockNotAvailable")

\* C15: in a range run (start < end) of either mode, the step that handles
\* the result of a slot's analysis never aborts: a failed slot is logged, a
\* succeeded one adds its document, and the loop goes on to the next slot;
\* so the finished run has analysed every slot of the range once, and prints
\* exactly the documents of the succeeded slots in increasing slot order.
RangeRunSkipsFailedSlots ==
    /\ [][(pc = "fetched" /\ pc' # pc /\ runner.start < runner.end) =>
            /\ pc' = "run_loop"
            /\ runner'.slot = runner.slot + 1
            /\ IF fetcher.result = "Ok"
               THEN /\ runner'.results =
                         Append(runner.results, Document(runner.slot, runner.mode))
                    /\ runner'.logged = runner.logged
               ELSE /\ runner'.results = runner.results
                    /\ runner'.logged = Append(runner.logged, runner.slot)]_vars
    /\ [](runner.start < runner.end => pc # "run_failed")
    /\ []((pc = "run_done" /\ runner.start < runner.end) =>
            /\ runner.output = runner.results
            /\ Len(runner.results) + Len(runner.logged) = runner.end - runner.start + 1
            /\ {runner.results[i].slot : i \in 1..Len(runner.results)}
                 \cup Range(runner.logged) = runner.start..runner.end
            /\ \A i \in 1..Len(runner.output) : runner.output[i].mode = runner.mode
            /\ \A i, j \in 1..Len(runner.output) :
                 i < j => runner.output[i].slot < runner.output[j].slot)

\* a finished range run in which a slot failed and a later slot succeeded
RangeRunWentOnAfterFailure ==
    /\ pc = "run_done" /\ runner.start < runner.end
    /\ \E i \in 1..Len(runner.logged), j \in 1..Len(runner.output) :
         runner.logged[i] < runner.output[j].slot

\* C21: within one detect_mev call every transaction is the front-run or
\* back-run of at most one sandwich candidate, and of at most one emitted
\* SandwichEvent.
TransactionInAtMostOneSandwich ==
    /\ \A a, b \in 1..Len(sandwich_candidates) :
         a # b =>
           {sandwich_candidates[a].front_run_tx, sandwich_candidates[a].back_run_tx}
             \cap {sandwich_candidates[b].front_run_tx,
                   sandwich_candidates[b].back_run_tx} = {}
    /\ \A a, b \in {k \in 1..Len(events) : events[k].type = "Sandwich"} :
         a # b =>
           {events[a].front_run.index, events[a].back_run.index}
             \cap {events[b].front_run.index, events[b].back_run.index} = {}

\* a sandwich was emitted one of whose transactions passes every pairing
\* check with a third transaction of the signer, which stayed unpaired
ClaimedTxHadAnotherPartner ==
    /\ pc = "returned"
    /\ \E e \in 1..Len(events) : events[e].type = "Sandwich"
    /\ \E k \in 1..Len(sandwich_candidates), r \in 1..Len(transactions) :
         LET c == sandwich_candidates[k]
             parsed == ParseAll(transactions, 1)
         IN /\ \A n \in 1..Len(sandwich_candidates) :
                 r \notin {sandwich_candidates[n].front_run_tx,
                           sandwich_candidates[n].back_run_tx}
            /\ is_success(transactions[r])
            /\ signer(transactions[r]) = c.signer
            /\ \/ r < c.back_run_tx
                  /\ Pairable(transactions, parsed, r, c.back_run_tx, c.signer)
               \/ r > c.front_run_tx
                  /\ Pairable(transactions, parsed, c.front_run_tx, r, c.signer)

\* C22: the swaps extract_swaps returns for a transaction follow the order of
\* the signer's outgoing transfers in the inner-instruction stream (inner sets
\* in their given order, transfers in walk order): their (token0, amount0)
\* sequence is an order-preserving selection of that stream; and the swaps of
\* an ArbitrageEvent are the candidate's list, unchanged.
SwapsInInstructionOrder ==
    /\ \A c \in 1..Len(arbitrage_candidates) :
         LET t == transactions[arbitrage_candidates[c].tx]
             sw == arbitrage_candidates[c].swaps
             who == StrOrEmpty(signer(t))
             SetOutgoing(n) ==
                 LET transfers == WalkInstructions(
                                    t.inner_instructions[n].instructions, 1,
                                    BuildTokenMap(t), GetAccountKeys(t), "", <<>>)
                     outgoing == OwnedPositions(transfers, BuildOwnerMap(t), who,
                                                "source", 1)
                 IN [k \in 1..Len(outgoing) |-> transfers[outgoing[k]].transfer]
             stream_ == IF Len(t.inner_instructions) = 0 THEN <<>>
                        ELSE IF Len(t.inner_instructions) = 1 THEN SetOutgoing(1)
                        ELSE SetOutgoing(1) \o SetOutgoing(2)
         IN \E f \in [1..Len(sw) -> 1..Len(stream_)] :
              /\ \A k \in 1..Len(sw) :
                   /\ sw[k].token0 = stream_[f[k]].mint
                   /\ sw[k].amount0 = Normalize(stream_[f[k]].amount, stream_[f[k]].decimals)
              /\ \A k, l \in 1..Len(sw) : k < l => f[k] < f[l]
    /\ \A e \in 1..Len(events) :
         events[e].type = "Arbitrage" =>
           \E c \in 1..Len(arbitrage_candidates) :
              /\ transactions[arbitrage_candidates[c].tx].signature = events[e].signature
              /\ events[e].swaps = arbitrage_candidates[c].swaps

\* an arbitrage was returned whose swaps come from two inner sets given in
\* descending order of their outer index, two of them from the first set
ArbitrageSwapsFromTwoSets ==
    /\ pc = "returned"
    /\ Len(transactions[1].inner_instructions) = 2
    /\ transactions[1].inner_instructions[1].index = 1
    /\ \E e \in 1..Len(events) :
         /\ events[e].type = "Arbitrage" /\ events[e].signature = "0"
         /\ Len(events[e].swaps) = 3
         /\ events[e].swaps[1].amount0 # events[e].swaps[2].amount0
         /\ events[e].swaps[3].dex = DEX_A
         /\ events[e].swaps[1].dex = DEX_B

\* the current_dex of the stated rule after the first n instructions of an
\* inner set: every instruction has a program id, whatever its encoding
RECURSIVE StatedDex(_, _, _, _)
StatedDex(instructions, n, account_keys, outer_dex) ==
    IF n = 0 THEN outer_dex
    ELSE LET inst == instructions[n]
             before == StatedDex(instructions, n - 1, account_keys, outer_dex)
             program_id == IF inst.kind = "Compiled"
                           THEN KeyAt(account_keys, inst.program_id_index)
                           ELSE inst.program_id
         IN IF program_id = "" \/ IsSystemProgram(program_id) THEN before
            ELSE program_id

\* C23 (as stated): every instruction of a program other than the system,
\* token, associated-token and compute-budget programs, fully parsed ones
\* included, sets current_dex to its program id, and a swap's dex is the
\* current_dex at its outgoing transfer.
SwapDexFollowsEveryProgram ==
    pc = "swaps_returned" =>
      \A k \in 1..Len(swaps) :
        \E n \in 1..Len(tx.inner_instructions[1].instructions) :
          LET insts == tx.inner_instructions[1].instructions
          IN /\ insts[n].kind = "Parsed"
             /\ insts[n].parsed.source = "a1"
             /\ swaps[k].dex =
                  StatedDex(insts, n, tx.account_keys,
                            KeyAt(GetOuterInstructions(tx), tx.inner_instructions[1].index))

\* C24: for every sandwich candidate the payment token is the wrapped-native
\* mint when the front swap touches it and front.token0 otherwise; spent and
\* received (front.amount0 / back.amount1 when front.token0 is the payment
\* token, back.amount0 / front.amount1 otherwise) are both amounts of the
\* payment token; and the revenue of an emitted sandwich is
\* max(received - spent, 0) times the price of the payment token (130.0 or
\* 1.0 when the price map has none).
SandwichRevenueInPaymentToken ==
    /\ \A c \in 1..Len(sandwich_candidates) :
         LET front == sandwich_candidates[c].front_run_swaps[1]
             back == sandwich_candidates[c].back_run_swaps[1]
             payment == IF front.token0 = SOL \/ front.token1 = SOL THEN SOL
                        ELSE front.token0
         IN IF front.token0 = payment
            THEN back.token1 = payment
            ELSE back.token0 = payment /\ front.token1 = payment
    /\ pc = "returned" =>
         \A e \in 1..Len(events) :
           events[e].type = "Sandwich" =>
             LET front == events[e].front_run.swap[1]
                 back == events[e].back_run.swap[1]
                 payment == IF front.token0 = SOL \/ front.token1 = SOL THEN SOL
                            ELSE front.token0
                 spent == IF front.token0 = payment THEN front.amount0 ELSE back.amount0
                 got == IF front.token0 = payment THEN back.amount1 ELSE front.amount1
                 price == IF payment \in DOMAIN price_map THEN price_map[payment]
                          ELSE IF payment = SOL THEN PAYMENT_DEFAULT_SOL_PRICE
                          ELSE PAYMENT_DEFAULT_PRICE
             IN events[e].profitability.revenue_usd =
                  (IF got - spent > 0 THEN got - spent ELSE 0) * price

\* a sandwich opened by a sale for the wrapped-native mint was returned: its
\* payment token is front.token1, and received is read from the front-run
SandwichOpenedBySaleReturned ==
    /\ pc = "returned"
    /\ \E e \in 1..Len(events) :
         /\ events[e].type = "Sandwich"
         /\ events[e].front_run.swap[1].token1 = SOL
         /\ events[e].profitability.revenue_usd > 0

\* C25: a call on an OracleClient returns, for every mint that already has a
\* cache entry, the cached price (0.0 included) and fetches nothing for it;
\* the cache entry never changes; the one fetch a call may issue holds
\* exactly the requested mints that had no entry.
CachedPricesAreReused ==
    [][LET old == oracle_client.price_cache
           new == oracle_client'.price_cache
           res == oracle_client'.results
           batch == IF Len(oracle_client'.fetched) > Len(oracle_client.fetched)
                    THEN Range(oracle_client'.fetched[Len(oracle_client'.fetched)])
                    ELSE {}
       IN oracle_client'.calls > oracle_client.calls =>
            /\ \A m \in DOMAIN old : m \in DOMAIN new /\ new[m] = old[m]
            /\ Len(oracle_client'.fetched) <= Len(oracle_client.fetched) + 1
            /\ batch \cap DOMAIN old = {}
            /\ \A k \in 1..Len(res) :
                 IF res[k][1] \in DOMAIN old
                 THEN res[k][2] = old[res[k][1]]
                 ELSE res[k][1] \in batch
            /\ batch \subseteq {res[k][1] : k \in 1..Len(res)}]_vars

\* a failed lookup of a mint with a feed was cached as 0.0, and a later call
\* returned that 0.0 without a second fetch
FailedLookupServedFromCache ==
    /\ oracle_client.calls >= 2
    /\ Len(oracle_client.fetched) = 1
    /\ SOL \in Range(oracle_client.fetched[1])
    /\ SOL \in DOMAIN oracle_client.price_cache
    /\ oracle_client.price_cache[SOL] = 0
    /\ \E k \in 1..Len(oracle_client.results) : oracle_client.results[k] = <<SOL, 0>>

\* C26: jito_tip returns post - pre of the first account key, in key order,
\* that is a tip recipient with a post balance above its pre balance; None
\* when there is no such key (or no meta, or no decoded message); the
\* credits of later tip recipients are not added.
JitoTipIsFirstCredit ==
    pc = "tip_returned" =>
      LET n == Len(tx.account_keys)
          Credited(i) == /\ tx.account_keys[i] \in JITO_TIP_ACCOUNTS
                         /\ i <= Len(tx.pre_balances) /\ i <= Len(tx.post_balances)
                         /\ tx.post_balances[i] > tx.pre_balances[i]
      IN IF ~tx.has_meta \/ tx.encoding = "Binary" \/ ~(\E i \in 1..n : Credited(i))
         THEN tip_result = NoNum
         ELSE \E i \in 1..n :
                /\ Credited(i)
                /\ \A j \in 1..(i - 1) : ~Credited(j)
                /\ tip_result = tx.post_balances[i] - tx.pre_balances[i]

\* two tip recipients were credited different amounts and the call returned
\* the credit of the first
FirstOfTwoCreditsReturned ==
    /\ pc = "tip_returned"
    /\ tx.has_meta /\ tx.encoding = "Parsed"
    /\ tx.account_keys[2] \in JITO_TIP_ACCOUNTS /\ tx.account_keys[3] \in JITO_TIP_ACCOUNTS
    /\ Len(tx.pre_balances) = 3 /\ Len(tx.post_balances) = 3
    /\ tx.post_balances[2] - tx.pre_balances[2] = 1
    /\ tx.post_balances[3] - tx.pre_balances[3] = 3
    /\ tip_result = 1

\* C27: no transaction is reported twice by one detect_mev call: the
\* transaction of an ArbitrageEvent (2 swaps or more) is not the front-run or
\* back-run (1 swap each) of a SandwichEvent of the same result, and no two
\* ArbitrageEvents carry the same signature.
NoTransactionReportedTwice ==
    LET arbs == {k \in 1..Len(events) : events[k].type = "Arbitrage"}
        sands == {k \in 1..Len(events) : events[k].type = "Sandwich"}
    IN /\ \A a \in arbs : Len(events[a].swaps) >= 2
       /\ \A s \in sands :
            Len(events[s].front_run.swap) = 1 /\ Len(events[s].back_run.swap) = 1
       /\ \A a \in arbs, s \in sands :
            events[a].signature \notin {events[s].front_run.signature,
                                        events[s].back_run.signature}
       /\ \A a, b \in arbs : a # b => events[a].signature # events[b].signature

\* an arbitrage and a sandwich of the same signer were returned, the
\* arbitrage transaction lying between the front-run and the back-run
ArbitrageInsideOwnSandwich ==
    /\ pc = "returned"
    /\ \E a, s \in 1..Len(events) :
         /\ events[a].type = "Arbitrage" /\ events[s].type = "Sandwich"
         /\ events[a].signer = events[s].signer
         /\ \E p \in 1..Len(transactions) :
              /\ transactions[p].signature = events[a].signature
              /\ transactions[p].index > events[s].front_run.index
              /\ transactions[p].index < events[s].back_run.index

(***************************************************************************)
(* Specification SpecNewStream: the task of BlockStream::new (stream.rs),  *)
(* for a start slot at either end of the u64 range.                        *)
(***************************************************************************)
\* the start_slot argument
StartSlots == {0, 1, U64Max - 1, U64Max}

\* `current_slot += 1` on a u64: the sum, or at u64::MAX a panic of the task
\* (overflow checks on, as in the dev profile) or 0 (off, as in the release
\* profile)
SlotIncrements(current_slot) ==
    IF current_slot < U64Max
    THEN {[panicked |-> FALSE, value |-> current_slot + 1]}
    ELSE {[panicked |-> TRUE, value |-> current_slot], [panicked |-> FALSE, value |-> 0]}

InitNewStream ==
    /\ pc = "new_loop"
    /\ \E m \in {0, MAIN_MAX_RETRIES} :
         fetcher = [NoFetcher EXCEPT !.max_retries = m,
                                     !.retry_delay_ms = MAIN_RETRY_DELAY_MS]
    /\ \E t \in 0..1, s \in SUBSET {1} : rpc = [tip |-> t, skipped |-> s]
    /\ \E start_slot \in StartSlots :
         stream = [NoStream EXCEPT !.running = TRUE, !.current_slot = start_slot]
    /\ runner = NoRunner
    /\ CoreIdle

\* the top of the loop: fetch_block(current_slot) is called
NewStreamIterate ==
    /\ pc = "new_loop"
    /\ Len(stream.sent) < MaxSent
    /\ fetcher' = StartFetch(stream.current_slot)
    /\ pc' = "fetch_block"
    /\ UNCHANGED <<core_vars, stream, runner, rpc>>

\* the match on the result of fetch_block: either arm sends the item and then
\* adds one to current_slot; a send into a channel whose receiver is gone
\* ends the task
NewStreamMatch ==
    /\ pc = "fetched" /\ stream.running
    /\ \E receiver_open \in BOOLEAN, incremented \in SlotIncrements(stream.current_slot) :
         LET item == [slot |-> stream.current_slot, result |-> fetcher.result,
                      cause |-> IF fetcher.result = "Ok" THEN "None"
                                ELSE fetcher.last_error]
         IN IF ~receiver_open
            THEN stream' = stream /\ pc' = "stream_ended"
            ELSE IF incremented.panicked
            THEN /\ stream' = [stream EXCEPT !.sent = Append(@, item)]
                 /\ pc' = "stream_ended"
            ELSE /\ stream' = [stream EXCEPT !.sent = Append(@, item),
                                             !.current_slot = incremented.value]
                 /\ pc' = "new_loop"
    /\ UNCHANGED <<core_vars, fetcher, runner, rpc>>

NextNewStream ==
    \/ NewStreamIterate
    \/ FetchAttempt
    \/ BackoffDone
    \/ NewStreamMatch
    \/ ChainAdvances

SpecNewStream == InitNewStream /\ [][NextNewStream]_vars

\* C28: the block stream delivers its items in strictly increasing slot
\* order, so no slot is delivered twice.
StreamSlotsStrictlyIncrease ==
    \A j, k \in 1..Len(stream.sent) :
        j < k => stream.sent[j].slot < stream.sent[k].slot

(***************************************************************************)
(* Specification SpecLimiter: concurrent RateLimiter::acquire calls        *)
(* (fetcher.rs).  limiter.at[c] is the position of caller c:               *)
(*   "lock_permits"      at `self.available_permits.lock().await`          *)
(*   "lock_last_refill"  at `self.last_refill.lock().await`                *)
(*   "refill"            both guards held, before the refill               *)
(*   "take"              before `if *permits > 0`                          *)
(*   "return"            at `return`, the guards not yet dropped           *)
(*   "return_permits"    last_refill dropped, permits not yet              *)
(*   "drop_permits"      at `drop(permits)`                                *)
(*   "drop_last_refill"  at `drop(last_refill)`                            *)
(*   "sleep"             in `sleep(100 ms)`                                *)
(*   "returned", "panicked"                                                *)
(* Time is counted in half seconds since *last_refill.                     *)
(***************************************************************************)
\* bounds: the width of u32, the tasks calling acquire, the half seconds
\* that pass without a refill, the calls that return
U32Bits == 3
MaxCallers == 3
MaxElapsed == 3
MaxAcquires == 4

U32Max == Pow(2, U32Bits) - 1
Callers == {ToString(k) : k \in 1..MaxCallers}
\* config.rate_limit
PermitRates == {0, 1, 2, U32Max}

\* `(elapsed_secs * self.permits_per_second as f64) as u32`: the cast
\* truncates and saturates
PermitsToAdd(elapsed, permits_per_second) ==
    LET product == (elapsed * permits_per_second) \div 2
    IN IF product > U32Max THEN U32Max ELSE product

\* `*permits + permits_to_add` on u32: the sum, or beyond u32::MAX a panic
\* (overflow checks on) or the wrapped sum (off)
PermitSums(permits, permits_to_add) ==
    LET sum == permits + permits_to_add
    IN IF sum <= U32Max
       THEN {[panicked |-> FALSE, value |-> sum]}
       ELSE {[panicked |-> TRUE, value |-> permits],
             [panicked |-> FALSE, value |-> sum % (U32Max + 1)]}

\* faulty variant: the refill is not capped
Uncapped(sum, permits_per_second) == sum

\* `.min(self.permits_per_second)`
Capped(sum, permits_per_second) ==
    IF sum < permits_per_second THEN sum ELSE permits_per_second

\* RateLimiter::new, and every task at the top of acquire
InitLimiter ==
    /\ pc = "acquire"
    /\ \E permits_per_second \in PermitRates :
         limiter = [permits_per_second |-> permits_per_second,
                    available_permits |-> permits_per_second,
                    elapsed |-> 0,
                    permits_lock |-> "free", last_refill_lock |-> "free",
                    at |-> [c \in Callers |-> "lock_permits"],
                    returned |-> 0]
    /\ oracle_client = NoOracleClient /\ tip_result = NoNum
    /\ ParserIdle /\ ClassifierIdle /\ MevIdle
    /\ price_map = <<>> /\ price_fetches = <<>> /\ worker_results = <<>>
    /\ fetcher = NoFetcher /\ stream = NoStream /\ runner = NoRunner /\ rpc = NoRpc

limiter_rest == <<pc, base_vars, oracle_client, tip_result>>

\* `self.available_permits.lock().await` completes
LockPermits(c) ==
    /\ limiter.at[c] = "lock_permits" /\ limiter.permits_lock = "free"
    /\ limiter' = [limiter EXCEPT !.permits_lock = c, !.at[c] = "lock_last_refill"]
    /\ UNCHANGED limiter_rest

\* `self.last_refill.lock().await` completes
LockLastRefill(c) ==
    /\ limiter.at[c] = "lock_last_refill" /\ limiter.last_refill_lock = "free"
    /\ limiter' = [limiter EXCEPT !.last_refill_lock = c, !.at[c] = "refill"]
    /\ UNCHANGED limiter_rest

\* the refill; a panic unwinds the task, which drops both guards
Refill(c) ==
    /\ limiter.at[c] = "refill"
    /\ LET permits_to_add == PermitsToAdd(limiter.elapsed, limiter.permits_per_second)
       IN IF permits_to_add > 0
          THEN \E sum \in PermitSums(limiter.available_permits, permits_to_add) :
                 IF sum.panicked
                 THEN limiter' = [limiter EXCEPT !.permits_lock = "free",
                                                 !.last_refill_lock = "free",
                                                 !.at[c] = "panicked"]
                 ELSE limiter' = [limiter EXCEPT
                                    !.available_permits =
                                        Capped(sum.value, limiter.permits_per_second),
                                    !.elapsed = 0,
                                    !.at[c] = "take"]
          ELSE limiter' = [limiter EXCEPT !.at[c] = "take"]
    /\ UNCHANGED limiter_rest

\* `if *permits > 0 { *permits -= 1; return; }`
Take(c) ==
    /\ limiter.at[c] = "take"
    /\ limiter' = IF limiter.available_permits > 0
                  THEN [limiter EXCEPT !.available_permits = @ - 1, !.at[c] = "return"]
                  ELSE [limiter EXCEPT !.at[c] = "drop_permits"]
    /\ UNCHANGED limiter_rest

\* the guards go out of scope at `return`, last declared first
ReturnDropLastRefill(c) ==
    /\ limiter.at[c] = "return"
    /\ limiter' = [limiter EXCEPT !.last_refill_lock = "free", !.at[c] = "return_permits"]
    /\ UNCHANGED limiter_rest

ReturnDropPermits(c) ==
    /\ limiter.at[c] = "return_permits"
    /\ limiter' = [limiter EXCEPT !.permits_lock = "free", !.at[c] = "returned",
                                  !.returned = @ + 1]
    /\ UNCHANGED limiter_rest

\* `drop(permits);`
DropPermits(c) ==
    /\ limiter.at[c] = "drop_permits"
    /\ limiter' = [limiter EXCEPT !.permits_lock = "free", !.at[c] = "drop_last_refill"]
    /\ UNCHANGED limiter_rest

\* `drop(last_refill);`
DropLastRefill(c) ==
    /\ limiter.at[c] = "drop_last_refill"
    /\ limiter' = [limiter EXCEPT !.last_refill_lock = "free", !.at[c] = "sleep"]
    /\ UNCHANGED limiter_rest

\* the sleep is over: back to the top of the loop
Wake(c) ==
    /\ limiter.at[c] = "sleep"
    /\ limiter' = [limiter EXCEPT !.at[c] = "lock_permits"]
    /\ UNCHANGED limiter_rest

\* the next iteration of fetch_block's loop calls acquire again
AcquireAgain(c) ==
    /\ limiter.at[c] = "returned" /\ limiter.returned < MaxAcquires
    /\ limiter' = [limiter EXCEPT !.at[c] = "lock_permits"]
    /\ UNCHANGED limiter_rest

\* half a second passes
TimePasses ==
    /\ limiter.elapsed < MaxElapsed
    /\ limiter' = [limiter EXCEPT !.elapsed = @ + 1]
    /\ UNCHANGED limiter_rest

NextLimiter ==
    \/ \E c \in Callers : LockPermits(c)
    \/ \E c \in Callers : LockLastRefill(c)
    \/ \E c \in Callers : Refill(c)
    \/ \E c \in Callers : Take(c)
    \/ \E c \in Callers : ReturnDropLastRefill(c)
    \/ \E c \in Callers : ReturnDropPermits(c)
    \/ \E c \in Callers : DropPermits(c)
    \/ \E c \in Callers : DropLastRefill(c)
    \/ \E c \in Callers : Wake(c)
    \/ \E c \in Callers : AcquireAgain(c)
    \/ TimePasses

SpecLimiter == InitLimiter /\ [][NextLimiter]_vars

\* caller c waits for a lock that another caller holds
WaitsFor(c) ==
    CASE limiter.at[c] = "lock_permits" -> limiter.permits_lock
      [] limiter.at[c] = "lock_last_refill" -> limiter.last_refill_lock
      [] OTHER -> "free"

\* C29: under any interleaving of concurrent acquire calls, available_permits
\* stays within 0..=permits_per_second; a call that returns has taken
\* exactly one permit, from a positive count, while holding both locks, and
\* one caller at a time is between the second lock and its release; a caller
\* that found no permit holds neither lock while it sleeps; last_refill is
\* locked only by the holder of available_permits, and no set of callers
\* wait for locks held within the set.
AcquireIsSafeUnderInterleaving ==
    /\ [](/\ limiter.available_permits >= 0
          /\ limiter.available_permits <= limiter.permits_per_second
          /\ Cardinality({c \in Callers : limiter.at[c] \in {"refill", "take", "return"}}) <= 1
          /\ \A c \in Callers :
               limiter.at[c] \in {"sleep", "lock_permits", "returned", "panicked"}
                  => limiter.permits_lock # c /\ limiter.last_refill_lock # c
          /\ \A waiting \in SUBSET Callers :
               waiting # {} => \E c \in waiting : WaitsFor(c) \notin waiting)
    /\ [][\A c \in Callers :
            /\ (limiter.at[c] # "return" /\ limiter'.at[c] = "return")
                 => /\ limiter.at[c] = "take"
                    /\ limiter.permits_lock = c /\ limiter.last_refill_lock = c
                    /\ limiter.available_permits > 0
                    /\ limiter'.available_permits = limiter.available_permits - 1
            /\ (limiter.at[c] # "returned" /\ limiter'.at[c] = "returned")
                 => limiter.at[c] = "return_permits"
            /\ (limiter.at[c] # "return_permits" /\ limiter'.at[c] = "return_permits")
                 => limiter.at[c] = "return"
            /\ (limiter.at[c] # "sleep" /\ limiter'.at[c] = "sleep")
                 => limiter.available_permits = 0
            /\ (limiter.last_refill_lock # c /\ limiter'.last_refill_lock = c)
                 => limiter.permits_lock = c
            /\ (limiter.permits_lock # c /\ limiter'.permits_lock = c)
                 => limiter.last_refill_lock # c]_vars

\* after a call has returned and the permits have run out, one caller waits
\* for last_refill, which a caller on its way to sleep still holds, and a
\* third caller waits for available_permits
CallersContendForBothLocks ==
    /\ limiter.returned >= 1 /\ limiter.available_permits = 0
    /\ \E c, d, e \in Callers :
         /\ limiter.at[c] = "lock_last_refill" /\ limiter.permits_lock = c
         /\ limiter.at[d] = "drop_last_refill" /\ limiter.last_refill_lock = d
         /\ limiter.at[e] = "lock_permits"

(***************************************************************************)
(* Specification SpecPairing: detect_mev on blocks in which a signer has a *)
(* buy, a sale at a loss and a sale at a gain around another signer's buy. *)
(***************************************************************************)
\* bound: the transactions of a block
MaxPairTxs == 4

PairingKinds ==
    LET LosingSellLegs == << Leg(TOKA, 4, SOL, 1) >>
    IN {<<"S1", BuyLegs, FALSE>>, <<"S1", LosingSellLegs, FALSE>>,
        <<"S1", SellLegs, FALSE>>, <<"S2", BuyLegs, FALSE>>}

InitPairing ==
    /\ InitCall
    /\ \E plan \in SeqsUpTo(PairingKinds, MaxPairTxs) : transactions = BlockOf(plan)
    /\ oracle \in OracleAnswers

SpecPairing == InitPairing /\ [][Next]_vars

\* the positions of the transactions of candidate k
PairOf(k) == {sandwich_candidates[k].front_run_tx, sandwich_candidates[k].back_run_tx}

\* the positions named by the Sandwich events
EventPairs ==
    {{events[e].front_run.index + 1, events[e].back_run.index + 1} :
        e \in {n \in 1..Len(events) : events[n].type = "Sandwich"}}

\* C30: sandwich pairing ignores profitability.  A front-run is paired with
\* the earliest later transaction of its signer that passes the checks and
\* is not in a pair formed before; an unpaired transaction has no later
\* partner left; and when detect_mev returns, the events are the profitable
\* candidates, so the two transactions of a candidate dropped as
\* unprofitable are in no SandwichEvent.
PairingIgnoresProfitability ==
    LET parsed == ParseAll(transactions, 1)
        cands == 1..Len(sandwich_candidates)
        Front(k) == sandwich_candidates[k].front_run_tx
        Back(k) == sandwich_candidates[k].back_run_tx
        Passes(i, j) ==
            /\ i < j /\ signer(transactions[i]) = signer(transactions[j])
            /\ Pairable(transactions, parsed, i, j, signer(transactions[i]))
        UsedBefore(j, i) == \E k \in cands : j \in PairOf(k) /\ Front(k) < i
        Used(j) == \E k \in cands : j \in PairOf(k)
        Dropped(k) == SandwichOutcomes(transactions, sandwich_candidates[k], price_map)
                        = {NoEvent}
    IN /\ \A k \in cands :
            /\ Passes(Front(k), Back(k))
            /\ \A j \in (Front(k) + 1)..(Back(k) - 1) :
                 Passes(Front(k), j) => UsedBefore(j, Front(k))
       /\ pc = "returned" =>
            /\ \A i, j \in 1..Len(transactions) :
                 Passes(i, j) => Used(i) \/ UsedBefore(j, i)
            /\ \A k \in cands : PairOf(k) \in EventPairs <=> ~Dropped(k)
            /\ \A k \in cands :
                 Dropped(k) => \A pair \in EventPairs : pair \cap PairOf(k) = {}

\* detect_mev returned no event for a front-run paired with the sale at a
\* loss, although a later sale of the signer would have passed the checks
\* with it at a gain
DroppedPairHadProfitablePartner ==
    /\ pc = "returned" /\ Len(sandwich_candidates) = 1 /\ events = <<>>
    /\ \E j \in 1..Len(transactions) :
         LET cand == sandwich_candidates[1]
             who == cand.signer
             parsed == ParseAll(transactions, 1)
         IN /\ j > cand.back_run_tx
            /\ Pairable(transactions, parsed, cand.front_run_tx, j, who)
            /\ SandwichOutcomes(transactions,
                                OwnedSandwich(transactions, parsed, cand.front_run_tx, j, who),
                                price_map) # {NoEvent}

====
